---- MODULE Spec2Model ----
(***************************************************************************)
(* The AI-assisted SOAP-note pipeline of the clinic backend:               *)
(*   apps/consultations/services/soap_generator.py                         *)
(*   apps/consultations/models/consultation.py                             *)
(*                                                                         *)
(* Text is modelled as a sequence of lines, a line as a sequence of        *)
(* tokens (a token is a string: the fence of three backticks, the tag      *)
(* json, a JSON punctuation mark, a quoted JSON string, null, a number, a  *)
(* word of prose, or whitespace).                                          *)
(* Python values are records tagged by their type.                         *)
(***************************************************************************)
EXTENDS Integers, Sequences, FiniteSets, TLC

VARIABLES
    settings,      \* django.conf.settings as read by _get_llm_kwargs
    pc,            \* position inside generate_soap_with_ai
    kwargs,        \* the value of _get_llm_kwargs() once evaluated
    calls,         \* number of litellm.completion calls made so far
    completion,    \* what the completion call did (raised / returned a reply)
    content,       \* the local variable content (unbound until line 225)
    exc,           \* the exception in flight inside the try block
    outcome,       \* how generate_soap_with_ai ended
    consultation,  \* the Consultation handed to build_soap_context
    history,       \* the prior Consultations handed to build_soap_context
    ctxpc,         \* position inside build_soap_context
    ctxout,        \* how build_soap_context ended
    context,       \* the context handed to generate_soap_with_ai
    messages,      \* the local variable messages (lines 218-221)
    sent,          \* the messages argument of each completion call made
    request,       \* the request to GenerateSOAPView.post: the user's clinic, pk
    db,            \* the rows of Consultation
    viewpc,        \* position inside GenerateSOAPView.post
    found,         \* the local variable consultation of post
    view_history,  \* the local variable patient_history of post
    view_context,  \* the local variable context of post
    soap_result,   \* how the call of generate_soap_with_ai made by post ended
    response,      \* the response of post
    invoices,      \* the rows of Invoice, each with its items
    consultation_rows, \* the rows of Consultation an invoice may be made for
    lastpk,        \* the primary key given to the newest Invoice
    invresp,       \* the answer of the last request to a billing view
    patient_rows,  \* the rows of Patient: clinic and patient_id
    idreqs,        \* the patient create requests in flight
    users,         \* the rows of CustomUser
    staffresp,     \* the answer of the last request to a staff view
    roles,         \* the rows of Role, each with its policies
    lastrole,      \* the primary key given to the newest Role
    roleresp       \* the answer of the last request to a role view

vars == <<settings, pc, kwargs, calls, completion, content, exc, outcome,
          consultation, history, ctxpc, ctxout, context, messages, sent,
          request, db, viewpc, found, view_history, view_context, soap_result,
          response, invoices, consultation_rows, lastpk, invresp,
          patient_rows, idreqs,
          users, staffresp,
          roles, lastrole, roleresp>>

soapVars == <<settings, pc, kwargs, calls, completion, content, exc, outcome>>
ctxVars == <<consultation, history, ctxpc, ctxout>>
promptVars == <<context, messages, sent>>
viewVars == <<request, db, viewpc, found, view_history, view_context, soap_result,
              response>>
billingVars == <<invoices, consultation_rows, lastpk, invresp>>
idVars == <<patient_rows, idreqs>>
staffVars == <<users, staffresp>>
roleVars == <<roles, lastrole, roleresp>>
\* what an invocation of generate_soap_with_ai leaves alone
soapRest == <<ctxVars, viewVars, billingVars, idVars, staffVars, roleVars>>
\* what a call of build_soap_context leaves alone
ctxRest == <<soapVars, promptVars, viewVars, billingVars, idVars, staffVars, roleVars>>
\* what a request to GenerateSOAPView.post leaves alone
viewRest == <<soapVars, promptVars, ctxVars, billingVars, idVars, staffVars, roleVars>>
\* what a request to a billing view leaves alone
billingRest == <<soapVars, promptVars, ctxVars, viewVars, idVars, staffVars, roleVars>>
\* what a patient create request leaves alone
idRest == <<soapVars, promptVars, ctxVars, viewVars, billingVars, staffVars, roleVars>>
\* what a request to a staff view leaves alone
staffRest == <<soapVars, promptVars, ctxVars, viewVars, billingVars, idVars, roleVars>>
\* what a request to a role view leaves alone
roleRest == <<soapVars, promptVars, ctxVars, viewVars, billingVars, idVars, staffVars>>

(***************************************************************************)
(* Bounds of the model.                                                    *)
(***************************************************************************)
\* leading / trailing blank lines put around a reply
MaxBlank == 1
\* other consultations of the patient of a request, days they fall on, and
\* consultations of one patient on one day
MaxPrior == 6
MaxDay == 4
MaxTie == 2
\* prior consultations handed to build_soap_context
MaxHistory == 2
\* invoices created in one run, and ticks of the clock
MaxCreated == 2
MaxTick == 2
\* patient create requests in flight together
MaxRequests == 2
\* staff members created in one run
MaxStaff == 1
\* roles created in one run
MaxRoles == 1

(***************************************************************************)
(* Python values.                                                          *)
(***************************************************************************)
PyNone == [t |-> "NoneType"]
PyStr(s) == [t |-> "str", s |-> s]
PyInt(n) == [t |-> "int", n |-> n]
PyFloat(x) == [t |-> "float", x |-> x]
\* decimal.Decimal with one decimal place, held in tenths
PyDecimal(tenths) == [t |-> "Decimal", tenths |-> tenths]
PyList(items) == [t |-> "list", items |-> items]
\* datetime.date, held as the day of January 2026
PyDate(day) == [t |-> "date", day |-> day]
PyDict(m) == [t |-> "dict", m |-> m]

\* Python truthiness of a value (bool(x))
Truthy(x) ==
    CASE x.t = "NoneType" -> FALSE
      [] x.t = "str" -> x.s # ""
      [] x.t = "int" -> x.n # 0
      [] x.t = "Decimal" -> x.tenths # 0
      [] x.t = "list" -> x.items # <<>>
      [] x.t = "dict" -> DOMAIN x.m # {}
      [] OTHER -> TRUE

\* x or d
PyOr(x, d) == IF Truthy(x) THEN x ELSE d

Exception(type, msg) == [type |-> type, msg |-> msg]
NoException == Exception("", "")

Returned(v) == [raised |-> FALSE, value |-> v, exc |-> NoException]
Raised(e) == [raised |-> TRUE, value |-> PyNone, exc |-> e]
Pending == [raised |-> FALSE, value |-> PyNone, exc |-> Exception("pending", "")]

(***************************************************************************)
(* Text: tokens, lines, str.strip, str.startswith, str.split, str.join.    *)
(***************************************************************************)
\* the three backticks of a markdown code fence
FENCE == "BACKTICKS"
TAG == "json"
SP == " "
PROSE == "Here"

Quote(s) == "\"" \o s \o "\""

KEYS == {"subjective", "objective", "assessment", "plan"}
KeyOrder == <<"subjective", "objective", "assessment", "plan", "other">>

\* the strings that occur inside quoted JSON strings of the model
Strings == KEYS \cup {"other", "a", "b", ""}
StringTokens == {Quote(s) : s \in Strings}
Unquote(tok) == CHOOSE s \in Strings : Quote(s) = tok

EmptyText == << <<>> >>

IsBlankLine(line) == \A i \in 1..Len(line) : line[i] = SP

RECURSIVE LStripLine(_)
LStripLine(line) ==
    IF line # <<>> /\ Head(line) = SP THEN LStripLine(Tail(line)) ELSE line

RECURSIVE RStripLine(_)
RStripLine(line) ==
    IF line # <<>> /\ line[Len(line)] = SP
    THEN RStripLine(SubSeq(line, 1, Len(line) - 1))
    ELSE line

RECURSIVE DropLeadingBlank(_)
DropLeadingBlank(text) ==
    IF text # <<>> /\ IsBlankLine(Head(text))
    THEN DropLeadingBlank(Tail(text))
    ELSE text

RECURSIVE DropTrailingBlank(_)
DropTrailingBlank(text) ==
    IF text # <<>> /\ IsBlankLine(text[Len(text)])
    THEN DropTrailingBlank(SubSeq(text, 1, Len(text) - 1))
    ELSE text

\* content.strip(): whitespace (spaces and newlines) removed at both ends
Strip(text) ==
    LET t == DropTrailingBlank(DropLeadingBlank(text))
    IN  IF t = <<>> THEN EmptyText
        ELSE IF Len(t) = 1 THEN <<RStripLine(LStripLine(t[1]))>>
        ELSE <<LStripLine(t[1])>> \o SubSeq(t, 2, Len(t) - 1)
                 \o <<RStripLine(t[Len(t)])>>

\* s.startswith(FENCE)
StartsWithFence(line) == line # <<>> /\ line[1] = FENCE

\* s.startswith(FENCE + "json")
StartsWithJsonFence(line) == Len(line) >= 2 /\ line[1] = FENCE /\ line[2] = TAG

\* "\n".join(lines)
Join(lines) == IF lines = <<>> THEN EmptyText ELSE lines

RECURSIVE Flatten(_)
\* the tokens of a text in order, whitespace and line breaks skipped
Flatten(text) ==
    IF text = <<>> THEN <<>>
    ELSE SelectSeq(Head(text), LAMBDA tok : tok # SP) \o Flatten(Tail(text))

(***************************************************************************)
(* json.loads: the decoder scans one value and rejects trailing data. It   *)
(* accepts the constant NaN besides the JSON grammar, as Python's does.    *)
(* A scan yields [ok, val, pos]: pos is the index after the value.         *)
(***************************************************************************)
ScanFail == [ok |-> FALSE, val |-> PyNone, pos |-> 0]
ScanOk(v, p) == [ok |-> TRUE, val |-> v, pos |-> p]

Tok(toks, i) == IF i <= Len(toks) THEN toks[i] ELSE "<eof>"

\* dict[key] = val (a repeated key keeps the last value)
DictSet(m, key, val) ==
    [k \in DOMAIN m \cup {key} |-> IF k = key THEN val ELSE m[k]]

RECURSIVE ScanValue(_, _), ScanMembers(_, _, _), ScanItems(_, _, _)

ScanValue(toks, i) ==
    LET tok == Tok(toks, i)
    IN  CASE tok = "{" ->
                 IF Tok(toks, i + 1) = "}"
                 THEN ScanOk(PyDict(<<>>), i + 2)
                 ELSE ScanMembers(toks, i + 1, <<>>)
          [] tok = "[" ->
                 IF Tok(toks, i + 1) = "]"
                 THEN ScanOk(PyList(<<>>), i + 2)
                 ELSE ScanItems(toks, i + 1, <<>>)
          [] tok \in StringTokens -> ScanOk(PyStr(Unquote(tok)), i + 1)
          [] tok = "null" -> ScanOk(PyNone, i + 1)
          [] tok = "1" -> ScanOk(PyInt(1), i + 1)
          [] tok = "NaN" -> ScanOk(PyFloat("nan"), i + 1)
          [] OTHER -> ScanFail

\* the members of an object after "{" or ",": "key" : value , ... }
ScanMembers(toks, i, m) ==
    IF Tok(toks, i) \notin StringTokens \/ Tok(toks, i + 1) # ":"
    THEN ScanFail
    ELSE LET v == ScanValue(toks, i + 2)
         IN  IF ~v.ok THEN ScanFail
             ELSE LET m2 == DictSet(m, Unquote(toks[i]), v.val)
                  IN  CASE Tok(toks, v.pos) = "," -> ScanMembers(toks, v.pos + 1, m2)
                        [] Tok(toks, v.pos) = "}" -> ScanOk(PyDict(m2), v.pos + 1)
                        [] OTHER -> ScanFail

\* the items of an array after "[" or ",": value , ... ]
ScanItems(toks, i, items) ==
    LET v == ScanValue(toks, i)
    IN  IF ~v.ok THEN ScanFail
        ELSE LET items2 == Append(items, v.val)
             IN  CASE Tok(toks, v.pos) = "," -> ScanItems(toks, v.pos + 1, items2)
                   [] Tok(toks, v.pos) = "]" -> ScanOk(PyList(items2), v.pos + 1)
                   [] OTHER -> ScanFail

JSONDecodeError == Exception("JSONDecodeError", "Expecting value")

\* json.loads(text)
JsonLoads(text) ==
    LET toks == Flatten(text)
        r == ScanValue(toks, 1)
    IN  IF r.ok /\ r.pos = Len(toks) + 1
        THEN Returned(r.val)
        ELSE Raised(JSONDecodeError)

(***************************************************************************)
(* generate_soap_with_ai, lines 229-243: the markdown code block.          *)
(***************************************************************************)
RECURSIVE ExtractJsonLines_NoClose(_, _, _)
\* the loop with the in_json branch tested before the closing fence
ExtractJsonLines_NoClose(lines, in_json, json_lines) ==
    IF lines = <<>> THEN json_lines
    ELSE LET line == Head(lines)
         IN  IF StartsWithJsonFence(line)
             THEN ExtractJsonLines_NoClose(Tail(lines), TRUE, json_lines)
             ELSE IF in_json
             THEN ExtractJsonLines_NoClose(Tail(lines), in_json, Append(json_lines, line))
             ELSE ExtractJsonLines_NoClose(Tail(lines), FALSE, json_lines)

RECURSIVE ExtractJsonLines(_, _, _)
\* the for loop over lines: in_json toggles on fence lines, json_lines grows
ExtractJsonLines(lines, in_json, json_lines) ==
    IF lines = <<>> THEN json_lines
    ELSE LET line == Head(lines)
         IN  IF StartsWithJsonFence(line)
             THEN ExtractJsonLines(Tail(lines), TRUE, json_lines)
             ELSE IF StartsWithFence(line)
             THEN ExtractJsonLines(Tail(lines), FALSE, json_lines)
             ELSE IF in_json
             THEN ExtractJsonLines(Tail(lines), in_json, Append(json_lines, line))
             ELSE ExtractJsonLines(Tail(lines), in_json, json_lines)

\* content after the "if content.startswith(...)" block
StripFence(text) ==
    IF StartsWithFence(text[1])
    THEN Join(ExtractJsonLines(text, FALSE, <<>>))
    ELSE text

\* soap_data.get(key): the default "" forgotten
DictGet_NoDefault(d, key) == IF key \in DOMAIN d.m THEN d.m[key] ELSE PyNone

\* soap_data.get(key, "")
DictGet(d, key) == IF key \in DOMAIN d.m THEN d.m[key] ELSE PyStr("")

\* the mapping with "objective" filled from the "assessment" key
SoapResult_Swapped(soap_data) ==
    PyDict([k \in KEYS |->
        DictGet(soap_data, IF k = "objective" THEN "assessment" ELSE k)])

\* the mapping built at lines 247-252
SoapResult(soap_data) == PyDict([k \in KEYS |-> DictGet(soap_data, k)])

(***************************************************************************)
(* _get_llm_kwargs and the settings it reads.                              *)
(***************************************************************************)
\* dash_hospital_mngt/settings.py, LLM_MODELS (the api_key entries)
LLM_MODELS(st) ==
    [m \in {"gpt-4o", "claude-sonnet-4-5-20250929"} |->
        [api_key |-> IF m = "gpt-4o" THEN st.OPENAI_API_KEY
                     ELSE st.ANTHROPIC_API_KEY]]

NoConfig == [api_key |-> ""]

ConfigurationError ==
    Exception("ValueError", "No LLM configured. Set DEFAULT_LLM_MODEL or an API key.")

\* the resolution with a silent fallback to gpt-4o instead of the raise
_get_llm_kwargs_Fallback(st) ==
    LET model_name ==
            IF st.DEFAULT_LLM_MODEL # "" THEN st.DEFAULT_LLM_MODEL
            ELSE IF st.ANTHROPIC_API_KEY # "" THEN "claude-sonnet-4-5-20250929"
            ELSE "gpt-4o"
    IN  Returned([model |-> model_name, config |-> LLM_MODELS(st)[model_name]])

\* the resolution with the OpenAI key tried before the Anthropic key
_get_llm_kwargs_OpenAIFirst(st) ==
    LET model_name ==
            IF st.DEFAULT_LLM_MODEL # "" THEN st.DEFAULT_LLM_MODEL
            ELSE IF st.OPENAI_API_KEY # "" THEN "gpt-4o"
            ELSE IF st.ANTHROPIC_API_KEY # "" THEN "claude-sonnet-4-5-20250929"
            ELSE ""
    IN  IF model_name = ""
        THEN Raised(ConfigurationError)
        ELSE Returned([model |-> model_name, config |-> LLM_MODELS(st)[model_name]])

_get_llm_kwargs(st) ==
    LET model_name ==
            IF st.DEFAULT_LLM_MODEL # "" THEN st.DEFAULT_LLM_MODEL
            ELSE IF st.ANTHROPIC_API_KEY # "" THEN "claude-sonnet-4-5-20250929"
            ELSE IF st.OPENAI_API_KEY # "" THEN "gpt-4o"
            ELSE ""
    IN  IF model_name = ""
        THEN Raised(ConfigurationError)
        ELSE Returned([model |-> model_name,
                       config |-> IF model_name \in DOMAIN LLM_MODELS(st)
                                  THEN LLM_MODELS(st)[model_name]
                                  ELSE NoConfig])

(***************************************************************************)
(* generate_soap_with_ai, lines 223-260.                                   *)
(***************************************************************************)
PyText(text) == [t |-> "str", text |-> text]

Unbound == [bound |-> FALSE, text |-> EmptyText]
Bound(text) == [bound |-> TRUE, text |-> text]

ParseError ==
    Exception("ValueError", "AI response was not valid JSON. Please try again.")
UnboundLocalError ==
    Exception("UnboundLocalError", "local variable 'content' referenced before assignment")
NoStripAttribute ==
    Exception("AttributeError", "'NoneType' object has no attribute 'strip'")
NoGetAttribute ==
    Exception("AttributeError", "object has no attribute 'get'")

\* lines 225-252 on the message content the completion returned:
\* the binding of content when the block ends, and how the block ends
ParseReply(reply) ==
    IF reply.t = "NoneType"
    THEN [content |-> Unbound, result |-> Raised(NoStripAttribute)]
    ELSE LET stripped == StripFence(Strip(reply.text))
             soap_data == JsonLoads(stripped)
         IN  [content |-> Bound(stripped),
              result |-> IF soap_data.raised THEN soap_data
                         ELSE IF soap_data.value.t # "dict" THEN Raised(NoGetAttribute)
                         ELSE Returned(SoapResult(soap_data.value))]

\* which except clause of lines 254-260 takes an exception
HandlerFor(e) ==
    IF e.type = "JSONDecodeError" THEN "except_json" ELSE "except_exception"

\* the handler returning an empty note instead of raising
ExceptJSONDecodeError_Swallow(e, c) == Returned(PyDict([k \in KEYS |-> PyStr("")]))

\* lines 254-257: the handler logs content, then raises the parse error
ExceptJSONDecodeError(e, c) ==
    IF c.bound THEN Raised(ParseError) ELSE Raised(UnboundLocalError)

\* lines 258-260: logged and re-raised
ExceptException(e, c) == Raised(e)

\* the handling of an exception raised inside the try block
Handle(e, c) ==
    IF HandlerFor(e) = "except_json"
    THEN ExceptJSONDecodeError(e, c)
    ELSE ExceptException(e, c)

\* how generate_soap_with_ai ends once the completion returned reply
GenerateFromReply(reply) ==
    LET p == ParseReply(reply)
    IN  IF p.result.raised THEN Handle(p.result.exc, p.content) ELSE p.result

(***************************************************************************)
(* The replies the completion endpoint may return: JSON payloads in two    *)
(* layouts, bare or inside markdown fences, with prose or blank lines      *)
(* around them, whole or cut short.                                        *)
(***************************************************************************)
ABSENT == "<absent>"
ValueTokens == {Quote("a"), Quote("b"), "null"}

\* which of the four keys an object holds, and with which value
Assignments == [KEYS -> ValueTokens \cup {ABSENT}]

RECURSIVE MemberSeq(_, _)
\* the members "key" : value of an object, in key order
MemberSeq(f, i) ==
    IF i > Len(KeyOrder) THEN <<>>
    ELSE LET k == KeyOrder[i]
         IN  (IF k \in DOMAIN f /\ f[k] # ABSENT
              THEN << <<Quote(k), ":", f[k]>> >>
              ELSE <<>>) \o MemberSeq(f, i + 1)

RECURSIVE CommaSeparated(_)
CommaSeparated(members) ==
    IF members = <<>> THEN <<>>
    ELSE IF Len(members) = 1 THEN Head(members)
    ELSE Head(members) \o <<",", SP>> \o CommaSeparated(Tail(members))

\* { "k": v, "k": v } on one line
OneLine(f) == << <<"{">> \o CommaSeparated(MemberSeq(f, 1)) \o <<"}">> >>

\* one member per line, indented
MultiLine(f) ==
    LET ms == MemberSeq(f, 1)
    IN  << <<"{">> >>
        \o [i \in 1..Len(ms) |->
               <<SP>> \o ms[i] \o (IF i < Len(ms) THEN <<",">> ELSE <<>>)]
        \o << <<"}">> >>

ObjectPayloads == {OneLine(f) : f \in Assignments} \cup {MultiLine(f) : f \in Assignments}

\* payloads that are JSON but not the four-key object, or not JSON at all
\* an object holding the four keys, objective and assessment with different values
FourKeys ==
    [k \in KEYS |-> IF k \in {"subjective", "objective"} THEN Quote("a") ELSE Quote("b")]

OtherPayloads ==
    { << <<"[", Quote("a"), "]">> >>,
      << <<"[", "]">> >>,
      << <<Quote("a")>> >>,
      << <<"null">> >>,
      << <<"1">> >>,
      << <<"{", Quote("plan"), ":", Quote("a"), ",", Quote("other"), ":", Quote("b"), "}">> >>,
      << <<"{", Quote("plan"), ":", Quote("a"), ",", Quote("plan"), ":", Quote("b"), "}">> >>,
      << <<"{", Quote("plan"), ":", "{", Quote("other"), ":", Quote("a"), "}", "}">> >>,
      << <<"{", Quote("plan"), ":", "[", Quote("a"), ",", "1", "]", "}">> >>,
      << <<"{", Quote("plan"), ":", "NaN", "}">> >>,
      << <<"{", Quote("plan"), ":", Quote("a"), ",", "}">> >>,
      << <<"{", Quote("plan"), Quote("a"), "}">> >>,
      << <<"{", Quote("plan"), ":", "}">> >>,
      << <<PROSE>> >>,
      EmptyText }

Payloads == ObjectPayloads \cup OtherPayloads

\* n blank lines before and after, and the first line indented
Padded(text, n) ==
    [i \in 1..n |-> <<SP>>] \o <<<<SP>> \o text[1]>> \o Tail(text)
        \o [i \in 1..n |-> <<>>]

FencedJson(p) == << <<FENCE, TAG>> >> \o p \o << <<FENCE>> >>
FencedPlain(p) == << <<FENCE>> >> \o p \o << <<FENCE>> >>
FencedUnclosed(p) == << <<FENCE, TAG>> >> \o p
FencedInline(p) == << <<FENCE, TAG, SP>> \o p[1] \o <<SP, FENCE>> >>
FencedThenProse(p) == FencedJson(p) \o << <<PROSE>> >>
ProseThenFenced(p) == << <<PROSE>> >> \o FencedJson(p)
ProseThenBare(p) == << <<PROSE>> >> \o p
TwoBlocks(p) == FencedJson(p) \o FencedJson(p)
ProseBlockThenFenced(p) == FencedPlain(<< <<PROSE>> >>) \o FencedJson(p)
ProseInsideFence(p) == FencedJson(<< <<PROSE>> >> \o p)
IndentedClose(p) == << <<FENCE, TAG>> >> \o p \o << <<SP, FENCE>>, <<FENCE>> >>
Truncated(p) ==
    SubSeq(p, 1, Len(p) - 1)
        \o << SubSeq(p[Len(p)], 1, Len(p[Len(p)]) - 1) >>

Shapes(p) ==
    {Padded(p, n) : n \in 0..MaxBlank}
        \cup {Padded(FencedJson(p), n) : n \in 0..MaxBlank}
        \cup {p, FencedJson(p), FencedPlain(p), FencedUnclosed(p), FencedInline(p),
              FencedThenProse(p), ProseThenFenced(p), ProseThenBare(p), TwoBlocks(p),
              IndentedClose(p), Truncated(p), FencedJson(Truncated(p)),
              ProseBlockThenFenced(p), ProseInsideFence(p)}

Replies == UNION {Shapes(p) : p \in Payloads}

\* what litellm.completion may raise
ProviderExceptions ==
    { Exception("APIConnectionError", "connection refused"),
      Exception("AuthenticationError", "invalid api key"),
      Exception("RateLimitError", "rate limit exceeded"),
      JSONDecodeError }

\* what the completion call may do: raise, or return a message whose content
\* is a text or None
CompletionOutcomes ==
    {Raised(e) : e \in ProviderExceptions}
        \cup {Returned(PyText(r)) : r \in Replies}
        \cup {Returned(PyNone)}

SettingsSpace ==
    [DEFAULT_LLM_MODEL : {"", "gpt-4o"},
     ANTHROPIC_API_KEY : {"", "sk-ant"},
     OPENAI_API_KEY : {"", "sk-oai"}]

(***************************************************************************)
(* build_soap_context and the records it reads.                            *)
(***************************************************************************)
\* str(Decimal) of a value with one decimal place
DecimalStr(d) == ToString(d.tenths \div 10) \o "." \o ToString(d.tenths % 10)

\* the rendering of a value inside an f-string
Fmt(x) ==
    CASE x.t = "str" -> x.s
      [] x.t = "int" -> ToString(x.n)
      [] x.t = "Decimal" -> DecimalStr(x)
      [] x.t = "date" ->
            "2026-01-" \o (IF x.day < 10 THEN "0" ELSE "") \o ToString(x.day)
      [] OTHER -> "None"

\* apps/patients/models/patient.py, the medical information of a Patient
Patients ==
    { [allergies |-> PyList(<<>>), medical_conditions |-> PyList(<<>>),
       current_medications |-> PyStr(""), blood_type |-> PyStr("")],
      [allergies |-> PyList(<<PyStr("Penicillin")>>),
       medical_conditions |-> PyList(<<PyStr("Asthma")>>),
       current_medications |-> PyStr("Salbutamol"), blood_type |-> PyStr("O+")] }

\* apps/consultations/models/consultation.py: the fields of a Consultation.
\* PositiveIntegerField and DecimalField with null=True hold None or a number
\* (zero included); the text fields hold a string.
Consultations ==
    [ chief_complaint : {PyStr(""), PyStr("cough")},
      bp_systolic : {PyNone, PyInt(0), PyInt(120)},
      bp_diastolic : {PyNone, PyInt(0), PyInt(80)},
      temperature : {PyNone, PyDecimal(0), PyDecimal(370)},
      temperature_unit : {PyStr("C"), PyStr("F")},
      heart_rate : {PyNone, PyInt(0), PyInt(78)},
      respiratory_rate : {PyNone, PyInt(16)},
      oxygen_saturation : {PyNone, PyInt(98)},
      weight : {PyNone, PyDecimal(705)},
      weight_unit : {PyStr("kg")},
      height : {PyNone, PyDecimal(1700)},
      height_unit : {PyStr("cm")},
      consultation_date : {PyStr("2026-01-20")},
      soap_assessment : {PyStr("")},
      primary_diagnosis : {PyStr("")},
      patient : Patients ]

\* the prior visits a history is drawn from
PriorVisits ==
    LET base == [ chief_complaint |-> PyStr("sore throat"),
                  bp_systolic |-> PyNone, bp_diastolic |-> PyNone,
                  temperature |-> PyNone, temperature_unit |-> PyStr("C"),
                  heart_rate |-> PyNone, respiratory_rate |-> PyNone,
                  oxygen_saturation |-> PyNone,
                  weight |-> PyNone, weight_unit |-> PyStr("kg"),
                  height |-> PyNone, height_unit |-> PyStr("cm"),
                  consultation_date |-> PyStr("2026-01-10"),
                  soap_assessment |-> PyStr("likely viral"),
                  primary_diagnosis |-> PyStr("Upper Respiratory Infection"),
                  patient |-> CHOOSE q \in Patients : q.blood_type = PyStr("") ]
    IN  { base,
          [base EXCEPT !.consultation_date = PyStr("2025-12-01"),
                       !.chief_complaint = PyStr(""),
                       !.soap_assessment = PyStr(""),
                       !.primary_diagnosis = PyStr("")] }

Histories == UNION {[1..n -> PriorVisits] : n \in 0..MaxHistory}

VITALS == {"blood_pressure", "temperature", "heart_rate", "respiratory_rate",
           "oxygen_saturation", "weight", "height"}

\* lines 72-76
BloodPressure(c) ==
    IF Truthy(c.bp_systolic) /\ Truthy(c.bp_diastolic)
    THEN PyStr(Fmt(c.bp_systolic) \o "/" \o Fmt(c.bp_diastolic) \o " mmHg")
    ELSE PyNone

\* the display with the heart rate formatted without its guard
VitalSigns_NoGuard(c) ==
    [k \in VITALS |->
        IF k = "blood_pressure" THEN BloodPressure(c)
        ELSE IF k = "heart_rate" THEN PyStr(Fmt(c.heart_rate) \o " bpm")
        ELSE PyNone]

\* lines 71-95, the vital_signs display (the degree sign is written deg)
VitalSigns(c) ==
    [ blood_pressure |-> BloodPressure(c),
      temperature |->
          IF Truthy(c.temperature)
          THEN PyStr(Fmt(c.temperature) \o "deg" \o Fmt(c.temperature_unit))
          ELSE PyNone,
      heart_rate |->
          IF Truthy(c.heart_rate) THEN PyStr(Fmt(c.heart_rate) \o " bpm") ELSE PyNone,
      respiratory_rate |->
          IF Truthy(c.respiratory_rate)
          THEN PyStr(Fmt(c.respiratory_rate) \o "/min") ELSE PyNone,
      oxygen_saturation |->
          IF Truthy(c.oxygen_saturation)
          THEN PyStr(Fmt(c.oxygen_saturation) \o "%") ELSE PyNone,
      weight |->
          IF Truthy(c.weight)
          THEN PyStr(Fmt(c.weight) \o " " \o Fmt(c.weight_unit)) ELSE PyNone,
      height |->
          IF Truthy(c.height)
          THEN PyStr(Fmt(c.height) \o " " \o Fmt(c.height_unit)) ELSE PyNone ]

\* lines 96-101
PatientMedicalInfo(patient) ==
    [ allergies |-> PyOr(patient.allergies, PyList(<<>>)),
      medical_conditions |-> PyOr(patient.medical_conditions, PyList(<<>>)),
      current_medications |-> PyOr(patient.current_medications, PyStr("")),
      blood_type |-> PyOr(patient.blood_type, PyStr("")) ]

NoAttribute(name) ==
    Exception("AttributeError", "'Consultation' object has no attribute '" \o name \o "'")

\* the attributes lines 104-107 read from a prior visit
HistoryAttributes == <<"consultation_date", "chief_complaint", "diagnosis", "soap_assessment">>

\* getattr(c, name): the attribute, or AttributeError when c has none
GetAttr(c, name) ==
    IF name \in DOMAIN c THEN Returned(c[name]) ELSE Raised(NoAttribute(name))

\* lines 103-108, the entry of one prior visit
HistoryEntry(c) ==
    LET missing == {i \in 1..Len(HistoryAttributes) : HistoryAttributes[i] \notin DOMAIN c}
    IN  IF missing # {}
        THEN GetAttr(c, HistoryAttributes[CHOOSE i \in missing : \A j \in missing : i <= j])
        ELSE Returned([ date |-> PyStr(Fmt(c["consultation_date"])),
                        chief_complaint |-> PyOr(c["chief_complaint"], PyStr("")),
                        diagnosis |-> PyOr(c["diagnosis"], PyStr("")),
                        assessment |-> PyOr(c["soap_assessment"], PyStr("")) ])

\* lines 56-111
build_soap_context(c, patient_history) ==
    LET entries == [i \in 1..Len(patient_history) |-> HistoryEntry(patient_history[i])]
        failed == {i \in 1..Len(entries) : entries[i].raised}
    IN  IF failed # {}
        THEN entries[CHOOSE i \in failed : \A j \in failed : i <= j]
        ELSE Returned([ chief_complaint |-> PyOr(c.chief_complaint, PyStr("")),
                        vital_signs |-> VitalSigns(c),
                        patient_medical_info |-> PatientMedicalInfo(c.patient),
                        patient_history |-> [i \in 1..Len(entries) |-> entries[i].value] ])

(***************************************************************************)
(* generate_soap_with_ai, lines 198-221: the user prompt and the messages. *)
(* A prompt is a sequence of lines, each line a string.                    *)
(***************************************************************************)
RECURSIVE JoinStr(_, _)
\* sep.join(items)
JoinStr(items, sep) ==
    IF items = <<>> THEN ""
    ELSE IF Len(items) = 1 THEN items[1]
    ELSE items[1] \o sep \o JoinStr(Tail(items), sep)

\* the keys of the vital_signs display in insertion order, which is the
\* order vital_signs.items() yields them in
VitalOrder == <<"blood_pressure", "temperature", "heart_rate", "respiratory_rate",
                "oxygen_saturation", "weight", "height">>

\* key.replace("_", " "), as the words the spaces separate
KeyWords ==
    [ blood_pressure |-> <<"blood", "pressure">>,
      temperature |-> <<"temperature">>,
      heart_rate |-> <<"heart", "rate">>,
      respiratory_rate |-> <<"respiratory", "rate">>,
      oxygen_saturation |-> <<"oxygen", "saturation">>,
      weight |-> <<"weight">>,
      height |-> <<"height">> ]

\* str.title() on one word
Capitalized ==
    [ blood |-> "Blood", pressure |-> "Pressure", temperature |-> "Temperature",
      heart |-> "Heart", rate |-> "Rate", respiratory |-> "Respiratory",
      oxygen |-> "Oxygen", saturation |-> "Saturation", weight |-> "Weight",
      height |-> "Height" ]

\* key.replace("_", " ").title()
Label(key) ==
    JoinStr([i \in 1..Len(KeyWords[key]) |-> Capitalized[KeyWords[key][i]]], " ")

\* the loop of lines 117-120 with the test of the value left out
_format_vitals_NoTest(vital_signs) ==
    LET keys == SelectSeq(VitalOrder, LAMBDA k : k \in DOMAIN vital_signs)
        parts == [i \in 1..Len(keys) |->
                     "- " \o Label(keys[i]) \o ": " \o Fmt(vital_signs[keys[i]])]
    IN  IF parts = <<>> THEN <<"No vital signs recorded.">> ELSE parts

\* lines 114-121
_format_vitals(vital_signs) ==
    LET keys == SelectSeq(VitalOrder,
                    LAMBDA k : k \in DOMAIN vital_signs /\ Truthy(vital_signs[k]))
        parts == [i \in 1..Len(keys) |->
                     "- " \o Label(keys[i]) \o ": " \o Fmt(vital_signs[keys[i]])]
    IN  IF parts = <<>> THEN <<"No vital signs recorded.">> ELSE parts

\* visit.get("diagnosis")
VisitGet(visit, key) == IF key \in DOMAIN visit THEN visit[key] ELSE PyNone

\* lines 124-135
_format_history(patient_history) ==
    IF patient_history = <<>>
    THEN <<"No previous consultations on record.">>
    ELSE [i \in 1..Len(patient_history) |->
            LET visit == patient_history[i]
            IN  "- " \o Fmt(visit["date"]) \o ": " \o Fmt(visit["chief_complaint"])
                  \o (IF Truthy(VisitGet(visit, "diagnosis"))
                      THEN " (Dx: " \o Fmt(visit["diagnosis"]) \o ")"
                      ELSE "")]

\* medical_info.get(key, default)
InfoGet(medical_info, key, default) ==
    IF key \in DOMAIN medical_info THEN medical_info[key] ELSE default

\* ", ".join(items) of a list of strings
CommaJoin(list) ==
    JoinStr([i \in 1..Len(list.items) |-> list.items[i].s], ", ")

\* lines 138-164
_format_medical_info(medical_info) ==
    LET allergies == InfoGet(medical_info, "allergies", PyList(<<>>))
        conditions == InfoGet(medical_info, "medical_conditions", PyList(<<>>))
        medications == InfoGet(medical_info, "current_medications", PyStr(""))
        blood_type == InfoGet(medical_info, "blood_type", PyStr(""))
    IN  << IF Truthy(allergies)
           THEN "- Allergies: " \o CommaJoin(allergies)
           ELSE "- Allergies: None known",
           IF Truthy(conditions)
           THEN "- Medical Conditions: " \o CommaJoin(conditions)
           ELSE "- Medical Conditions: None known",
           IF Truthy(medications)
           THEN "- Current Medications: " \o Fmt(medications)
           ELSE "- Current Medications: None" >>
        \o (IF Truthy(blood_type)
            THEN <<"- Blood Type: " \o Fmt(blood_type)>>
            ELSE <<>>)

\* the empty dict
EmptyDict == [k \in {} |-> PyNone]

\* context.get('patient_medical_info', {})
ContextMedicalInfo(ctx) ==
    IF "patient_medical_info" \in DOMAIN ctx THEN ctx["patient_medical_info"] ELSE EmptyDict

\* lines 198-216, the f-string
UserPrompt(ctx) ==
    << "Generate SOAP notes for this consultation:",
       "",
       "CHIEF COMPLAINT:",
       Fmt(ctx["chief_complaint"]),
       "",
       "VITAL SIGNS:" >>
    \o _format_vitals(ctx["vital_signs"])
    \o << "", "PATIENT MEDICAL INFORMATION:" >>
    \o _format_medical_info(ContextMedicalInfo(ctx))
    \o << "", "PATIENT HISTORY (recent consultations):" >>
    \o _format_history(ctx["patient_history"])
    \o << "",
          "Generate appropriate SOAP notes based on this information. Remember this is a draft",
          "for physician review - be helpful but indicate uncertainty appropriately.",
          "IMPORTANT: Check allergies before suggesting any medications.",
          "",
          "Respond with a JSON object containing: subjective, objective, assessment, plan" >>

\* lines 14-53, by its opening lines
SOAP_SYSTEM_PROMPT ==
    << "You are a medical documentation assistant helping physicians create SOAP notes",
       "for a clinic management system. Your role is to generate professional, accurate SOAP notes",
       "based on the provided patient information." >>

\* the list with the system message left out
Messages_UserOnly(ctx) == << [role |-> "user", content |-> UserPrompt(ctx)] >>

\* lines 218-221
Messages(ctx) ==
    << [role |-> "system", content |-> SOAP_SYSTEM_PROMPT],
       [role |-> "user", content |-> UserPrompt(ctx)] >>

\* the rendered value a context holds for a recorded vital
VitalSample ==
    [ blood_pressure |-> "120/80 mmHg", temperature |-> "37.0degC",
      heart_rate |-> "78 bpm", respiratory_rate |-> "16/min",
      oxygen_saturation |-> "98%", weight |-> "70.5 kg", height |-> "170.0 cm" ]

\* the vital_signs displays build_soap_context may return: each vital its
\* rendered string or None
VitalDisplays ==
    {[k \in VITALS |-> IF k \in S THEN PyStr(VitalSample[k]) ELSE PyNone] : S \in SUBSET VITALS}

\* the patient_history entries of a context
VisitEntries ==
    { [date |-> PyStr("2026-01-10"), chief_complaint |-> PyStr("sore throat"),
       diagnosis |-> PyStr("Upper Respiratory Infection"), assessment |-> PyStr("likely viral")],
      [date |-> PyStr("2025-12-01"), chief_complaint |-> PyStr("headache"),
       diagnosis |-> PyStr(""), assessment |-> PyStr("tension headache")],
      [date |-> PyStr("2025-11-05"), chief_complaint |-> PyStr(""),
       diagnosis |-> PyStr(""), assessment |-> PyStr("")] }

\* the patient_medical_info of a context: that of the patients above and
\* that of a patient with several allergies and conditions
MedicalInfos ==
    {PatientMedicalInfo(q) : q \in Patients}
        \cup { [ allergies |-> PyList(<<PyStr("Penicillin"), PyStr("Latex")>>),
                 medical_conditions |-> PyList(<<PyStr("Asthma"), PyStr("Diabetes")>>),
                 current_medications |-> PyStr(""),
                 blood_type |-> PyStr("") ] }

\* the contexts generate_soap_with_ai is called with: those of the shape
\* build_soap_context returns, and those without patient_medical_info
Contexts ==
    LET full == [ chief_complaint : {PyStr("cough"), PyStr("")},
                  vital_signs : VitalDisplays,
                  patient_medical_info : MedicalInfos,
                  patient_history :
                      UNION {[1..n -> VisitEntries] : n \in 0..MaxHistory} ]
    IN  full \cup { [ chief_complaint |-> c.chief_complaint,
                      vital_signs |-> c.vital_signs,
                      patient_history |-> c.patient_history ] :
                    c \in {d \in full : d.patient_medical_info.blood_type = PyStr("")} }

\* the context of the invocations whose replies are explored
SampleContext ==
    [ chief_complaint |-> PyStr("cough"),
      vital_signs |-> [k \in VITALS |->
                          IF k \in {"blood_pressure", "heart_rate"}
                          THEN PyStr(VitalSample[k]) ELSE PyNone],
      patient_medical_info |->
          PatientMedicalInfo(CHOOSE q \in Patients : q.blood_type = PyStr("O+")),
      patient_history |-> <<>> ]

(***************************************************************************)
(* apps/api/consultation_views.py, GenerateSOAPView.post (lines 194-267).  *)
(* The stored consultations are records holding the fields the view and    *)
(* build_soap_context read; a date is the day of the month.                *)
(***************************************************************************)
\* the slice [:5] of the history query
HistoryLimit == 5

NoClinic == "None"
Clinics == {"A", "B"}

\* a row of Consultation: the patient of every row belongs to the row's
\* clinic (ConsultationCreateSerializer.validate_patient)
StoredConsultation(pk, clinic, patient_id, day, complaint) ==
    [ pk |-> pk, clinic |-> clinic, patient_id |-> patient_id,
      chief_complaint |-> PyStr(complaint),
      consultation_date |-> PyDate(day),
      bp_systolic |-> PyInt(120), bp_diastolic |-> PyInt(80),
      temperature |-> PyNone, temperature_unit |-> PyStr("C"),
      heart_rate |-> PyInt(78), respiratory_rate |-> PyNone,
      oxygen_saturation |-> PyNone,
      weight |-> PyNone, weight_unit |-> PyStr("kg"),
      height |-> PyNone, height_unit |-> PyStr("cm"),
      soap_assessment |-> PyStr(""),
      primary_diagnosis |-> PyStr(""),
      patient |-> CHOOSE q \in Patients : q.blood_type = PyStr("O+") ]

\* the days of n consultations in date order: at most MaxTie on one day
DaySequences(n) ==
    {d \in [1..n -> 1..MaxDay] :
        /\ \A i \in 1..(n - 1) : d[i] <= d[i + 1]
        /\ \A v \in 1..MaxDay : Cardinality({i \in 1..n : d[i] = v}) <= MaxTie}

\* the position in date order of the consultation with primary key i of n:
\* primary keys and dates do not follow each other
Interleave(i, n) ==
    IF 2 * i - 1 <= n THEN 2 * i - 1 ELSE 2 * (i - (n + 1) \div 2)

\* a clinic's table: n consultations of patient P1 of clinic A on the days d,
\* one consultation of patient P2 of clinic A and one of patient P3 of
\* clinic B, both on the latest day
HistoryTable(n, d) ==
    {StoredConsultation(i, "A", "P1", d[Interleave(i, n)], "cough") : i \in 1..n}
        \cup {StoredConsultation(n + 1, "A", "P2", MaxDay, "cough"),
              StoredConsultation(n + 2, "B", "P3", MaxDay, "cough")}

HistoryTables ==
    UNION {{HistoryTable(n, d) : d \in DaySequences(n)} : n \in 1..(MaxPrior + 1)}

\* a small table: a consultation with a prior visit, one without a chief
\* complaint, one of a patient seen once, one of the other clinic
SmallTable ==
    { StoredConsultation(1, "A", "P1", 2, "cough"),
      StoredConsultation(2, "A", "P1", 1, ""),
      StoredConsultation(3, "A", "P2", 1, "cough"),
      StoredConsultation(4, "B", "P3", 1, "cough") }

\* django.conf.settings as the view reads it
ViewSettings ==
    [DEFAULT_LLM_MODEL : {"", "gpt-4o"},
     ANTHROPIC_API_KEY : {"", "sk-ant"},
     OPENAI_API_KEY : {"", "sk-oai"},
     DEBUG : BOOLEAN]

HttpResponse(status, body) == [status |-> status, body |-> body]
NoResponse == HttpResponse(0, <<>>)

\* lines 203-206: has_openai or has_anthropic
HasProviderKey(st) == st.OPENAI_API_KEY # "" \/ st.ANTHROPIC_API_KEY # ""

\* lines 196-213: the answer given before the consultation is looked up, if any
EarlyResponse(user_clinic, st) ==
    IF user_clinic = NoClinic
    THEN HttpResponse(400, [success |-> FALSE, message |-> "User has no clinic"])
    ELSE IF ~HasProviderKey(st)
    THEN HttpResponse(503,
            [success |-> FALSE,
             message |-> "AI service is not configured. Please contact administrator."])
    ELSE NoResponse

Http404 == Exception("Http404", "No Consultation matches the given query.")

\* the lookup by primary key alone
GetObjectOr404_AnyClinic(table, pk, clinic) ==
    LET rows == {c \in table : c.pk = pk}
    IN  IF rows = {} THEN Raised(Http404) ELSE Returned(CHOOSE c \in rows : TRUE)

\* lines 216-220: get_object_or_404(Consultation.objects, pk=pk, clinic=clinic)
GetObjectOr404(table, pk, clinic) ==
    LET rows == {c \in table : c.pk = pk /\ c.clinic = clinic}
    IN  IF rows = {} THEN Raised(Http404) ELSE Returned(CHOOSE c \in rows : TRUE)

NotFoundResponse == HttpResponse(404, [detail |-> "Not found."])

NoComplaintResponse ==
    HttpResponse(400,
        [success |-> FALSE,
         message |-> "Chief complaint is required to generate SOAP notes."])

RECURSIVE OrderedSlices(_, _)
\* order_by("-consultation_date")[:n] over the rows: every sequence of the n
\* first rows the database may return, rows of one date coming in any order
OrderedSlices(rows, n) ==
    IF rows = {} \/ n = 0 THEN {<<>>}
    ELSE LET latest == {c \in rows :
                           \A o \in rows : o.consultation_date.day <= c.consultation_date.day}
         IN  UNION {{<<c>> \o tl : tl \in OrderedSlices(rows \ {c}, n - 1)} : c \in latest}

\* the query without .exclude(pk=pk)
PatientHistoryQuery_NoExclude(table, c, clinic, pk) ==
    OrderedSlices({o \in table : o.patient_id = c.patient_id /\ o.clinic = clinic},
                  HistoryLimit)

\* lines 232-240
PatientHistoryQuery(table, c, clinic, pk) ==
    OrderedSlices({o \in table : /\ o.patient_id = c.patient_id
                                 /\ o.clinic = clinic
                                 /\ o.pk # pk},
                  HistoryLimit)

\* str(e)
ExcStr(e) == PyStr(e.msg)

\* line 243 is outside the try statement: an exception of build_soap_context
\* leaves post and the framework answers 500, with the exception's text on
\* the debug page when DEBUG is set
UnhandledResponse(e, st) ==
    HttpResponse(500, [unhandled |-> e.type,
                       error |-> IF st.DEBUG THEN ExcStr(e) ELSE PyNone])

\* the failure body with str(e) whatever DEBUG is
FailureResponse_AlwaysError(e, st) ==
    HttpResponse(500,
        [success |-> FALSE,
         message |-> "Failed to generate SOAP notes. Please try again.",
         error |-> ExcStr(e)])

\* lines 258-267
FailureResponse(e, st) ==
    HttpResponse(500,
        [success |-> FALSE,
         message |-> "Failed to generate SOAP notes. Please try again.",
         error |-> IF st.DEBUG THEN ExcStr(e) ELSE PyNone])

\* lines 249-256
SuccessResponse(soap, ctx) ==
    HttpResponse(200, [success |-> TRUE, soap |-> soap, context_used |-> ctx])

\* one invocation of generate_soap_with_ai under the settings st, the
\* completion call (if made) doing comp: lines 223-260 as a whole
generate_soap_with_ai(st, comp) ==
    LET k == _get_llm_kwargs(st)
    IN  IF k.raised THEN Handle(k.exc, Unbound)
        ELSE IF comp.raised THEN Handle(comp.exc, Unbound)
        ELSE GenerateFromReply(comp.value)

\* what the completion call may do during a request
ViewReplies ==
    { OneLine(FourKeys),
      FencedJson(MultiLine(FourKeys)),
      Truncated(OneLine(FourKeys)),
      <<<<"[", "]">>>>,
      <<<<PROSE>>>> }

ViewCompletions ==
    {Raised(e) : e \in ProviderExceptions}
        \cup {Returned(PyText(r)) : r \in ViewReplies}
        \cup {Returned(PyNone)}

(***************************************************************************)
(* Billing: apps/billing/models/invoice.py, the serializers of             *)
(* apps/billing/serializers/invoice.py and the views of                    *)
(* apps/api/billing_views.py. Money is held in hundredths; the prices and  *)
(* percentages drawn below give products and quotients without a           *)
(* remainder. One consultation of clinic A is billable, so the store       *)
(* holds at most one invoice at a time.                                    *)
(***************************************************************************)
BillingConsultation == 1
BillingClinic == "A"

\* the items of a request: quantity and unit_price
ItemData ==
    { [quantity |-> 1, unit_price |-> 50000],
      [quantity |-> 2, unit_price |-> 15000] }

ItemLists ==
    { <<>>,
      <<[quantity |-> 1, unit_price |-> 50000]>>,
      <<[quantity |-> 1, unit_price |-> 50000], [quantity |-> 2, unit_price |-> 15000]>> }

\* request.user.clinic of the users who ask
BillingUsers == Clinics \cup {NoClinic}

STATUS_CHOICES == {"draft", "pending", "paid", "cancelled"}

\* discount_type and discount_value as a request gives them together
Discounts ==
    { [discount_type |-> "none", discount_value |-> 0],
      [discount_type |-> "percent", discount_value |-> 1000],
      [discount_type |-> "amount", discount_value |-> 5000] }

\* a field of a request: given with a value, or left out
Given(v) == <<v>>
NotGiven == <<>>
Opt(S) == {Given(v) : v \in S} \cup {NotGiven}

\* the fields of InvoiceCreateUpdateSerializer a request may carry
InvoiceData ==
    [ status : Opt(STATUS_CHOICES),
      discount : Opt(Discounts),
      notes : Opt({"follow-up"}),
      items : Opt(ItemLists) ]

\* InvoiceItem.save, and lines 129-133 of the serializer: amount = quantity * unit_price
StoredItem(item_data) ==
    [ quantity |-> item_data.quantity,
      unit_price |-> item_data.unit_price,
      amount |-> item_data.quantity * item_data.unit_price ]

StoredItems(items_data) == [i \in 1..Len(items_data) |-> StoredItem(items_data[i])]

RECURSIVE SumAmounts(_)
\* sum(item.amount for item in self.items.all())
SumAmounts(items) ==
    IF items = <<>> THEN 0 ELSE Head(items).amount + SumAmounts(Tail(items))

\* Invoice.calculate_totals
calculate_totals(inv) ==
    LET subtotal == SumAmounts(inv.items)
        discount_amount ==
            IF inv.discount_type = "percent" /\ inv.discount_value > 0
            THEN (subtotal * inv.discount_value) \div 10000
            ELSE IF inv.discount_type = "amount" /\ inv.discount_value > 0
            THEN inv.discount_value
            ELSE 0
    IN  [inv EXCEPT !.subtotal = subtotal,
                    !.discount_amount = discount_amount,
                    !.total = subtotal - discount_amount]

\* Invoice(...) with the defaults of the model's fields
NewInvoice(pk) ==
    [ pk |-> pk, clinic |-> BillingClinic, consultation |-> BillingConsultation,
      status |-> "draft", items |-> <<>>,
      discount_type |-> "none", discount_value |-> 0,
      subtotal |-> 0, discount_amount |-> 0, total |-> 0,
      amount_paid |-> 0, payment_date |-> PyNone,
      payment_method |-> "cash", payment_reference |-> "",
      notes |-> "" ]

\* for attr, value in validated_data.items(): setattr(instance, attr, value)
SetAttrs(inv, data) ==
    [inv EXCEPT
        !.status = IF data.status = NotGiven THEN @ ELSE data.status[1],
        !.discount_type = IF data.discount = NotGiven THEN @ ELSE data.discount[1].discount_type,
        !.discount_value = IF data.discount = NotGiven THEN @ ELSE data.discount[1].discount_value,
        !.notes = IF data.notes = NotGiven THEN @ ELSE data.notes[1]]

\* InvoiceCreateUpdateSerializer.create, lines 105-139
InvoiceCreate(pk, data) ==
    calculate_totals([SetAttrs(NewInvoice(pk), data) EXCEPT !.items = StoredItems(data.items[1])])

\* InvoiceCreateUpdateSerializer.update, lines 141-172
InvoiceUpdate(inv, data) ==
    LET set == SetAttrs(inv, data)
    IN  IF data.items = NotGiven THEN set
        ELSE calculate_totals([set EXCEPT !.items = StoredItems(data.items[1])])

ValidationError(msg) == Exception("ValidationError", msg)

\* the payment recorded without the test of the status
InvoicePaySerializer_update_NoTest(inv, data, now) ==
    Returned([inv EXCEPT !.amount_paid = inv.total,
                         !.payment_date = now,
                         !.payment_method = "cash",
                         !.payment_reference = data.payment_reference,
                         !.status = "paid"])

\* InvoicePaySerializer.update, lines 208-221
InvoicePaySerializer_update(inv, data, now) ==
    IF inv.status \notin {"draft", "pending"}
    THEN Raised(ValidationError("Only draft or pending invoices can be paid."))
    ELSE Returned([inv EXCEPT !.amount_paid = inv.total,
                              !.payment_date = now,
                              !.payment_method = "cash",
                              !.payment_reference = data.payment_reference,
                              !.status = "paid"])

\* the finalization without the test of the items
InvoiceFinalizeSerializer_update_NoItemsTest(inv) ==
    IF inv.status # "draft"
    THEN Raised(ValidationError("Only draft invoices can be finalized."))
    ELSE Returned([inv EXCEPT !.status = "pending"])

\* InvoiceFinalizeSerializer.update, lines 227-237
InvoiceFinalizeSerializer_update(inv) ==
    IF inv.status # "draft"
    THEN Raised(ValidationError("Only draft invoices can be finalized."))
    ELSE IF Len(inv.items) = 0
    THEN Raised(ValidationError("Invoice must have at least one item."))
    ELSE Returned([inv EXCEPT !.status = "pending"])

\* InvoiceCancelSerializer.update, lines 243-252
InvoiceCancelSerializer_update(inv) ==
    IF inv.status = "paid"
    THEN Raised(ValidationError("Paid invoices cannot be cancelled."))
    ELSE IF inv.status = "cancelled"
    THEN Raised(ValidationError("Invoice is already cancelled."))
    ELSE Returned([inv EXCEPT !.status = "cancelled"])

\* timezone.now(), as a tick of the clock
PyDateTime(tick) == [t |-> "datetime", tick |-> tick]

\* the answer of a billing view, with the operation and the request it answers
BillingResponse(op, user_clinic, pk, status, body) ==
    [op |-> op, clinic |-> user_clinic, pk |-> pk, status |-> status, body |-> body]
NoBillingResponse == BillingResponse("", NoClinic, 0, 0, "")

\* the rows get_object_or_404(Invoice, pk=pk, clinic=request.user.clinic) finds
InvoiceRows(rows, pk, user_clinic) ==
    {inv \in rows : inv.pk = pk /\ inv.clinic = user_clinic}

\* the row, once found
TheRow(found_rows) == CHOOSE inv \in found_rows : TRUE

\* instance.save() of a row, and its deletion
Saved(rows, inv) == {row \in rows : row.pk # inv.pk} \cup {inv}
Deleted(rows, inv) == {row \in rows : row.pk # inv.pk}

\* consultation.delete(): the row goes, and with it the invoice whose
\* consultation (OneToOneField, on_delete=CASCADE) it is
CascadeDeleted(rows, consultation_pk) == {row \in rows : row.consultation # consultation_pk}

\* a ValidationError raised by save() is answered 400 with its message
ErrorBody(e) == e.msg

(***************************************************************************)
(* Human-readable ids: generate_patient_id of apps/api/patient_views.py    *)
(* (generate_appointment_id and generate_consultation_id differ only in    *)
(* the prefix and the table). An id is the text PREFIX-YYYY-digits, held   *)
(* as its three parts; the digits are a sequence of 0..9.                  *)
(***************************************************************************)
\* datetime.now().year
ThisYear == 2026
\* the width of the format :04d
IdWidth == 4

RECURSIVE Digits(_)
\* str(n) for n >= 0
Digits(n) == IF n < 10 THEN <<n>> ELSE Append(Digits(n \div 10), n % 10)

RECURSIVE ZeroPad(_, _)
\* the padding of :04d: zeros in front up to the width, never a cut
ZeroPad(ds, width) == IF Len(ds) >= width THEN ds ELSE ZeroPad(<<0>> \o ds, width)

RECURSIVE ToInt(_)
\* int(text) of a text of digits
ToInt(ds) ==
    IF ds = <<>> THEN 0
    ELSE ToInt(SubSeq(ds, 1, Len(ds) - 1)) * 10 + ds[Len(ds)]

RECURSIVE DigitsLess(_, _)
\* a < b as the database compares two texts: by the first place they differ
\* in, a proper prefix being the smaller
DigitsLess(a, b) ==
    IF b = <<>> THEN FALSE
    ELSE IF a = <<>> THEN TRUE
    ELSE IF Head(a) # Head(b) THEN Head(a) < Head(b)
    ELSE DigitsLess(Tail(a), Tail(b))

\* f"{prefix}{new_seq:04d}" with prefix = f"PT-{year}-"
IdText(prefix, year, digits) == [prefix |-> prefix, year |-> year, digits |-> digits]

\* filter(clinic=clinic, patient_id__startswith=prefix)
WithPrefix(rows, clinic, prefix, year) ==
    {row \in rows : /\ row.clinic = clinic
                    /\ row.patient_id.prefix = prefix
                    /\ row.patient_id.year = year}

\* aggregate(max_id=Max("patient_id")) over rows of one prefix: the greatest
\* of the texts; None over no row
MaxId(rows) ==
    IF rows = {} THEN PyNone
    ELSE (CHOOSE row \in rows :
              \A other \in rows : ~DigitsLess(row.patient_id.digits, other.patient_id.digits)
         ).patient_id

\* generate_patient_id, lines 19-39
generate_patient_id(rows, clinic, year) ==
    LET max_id == MaxId(WithPrefix(rows, clinic, "PT", year))
        new_seq == IF max_id # PyNone THEN ToInt(max_id.digits) + 1 ELSE 1
    IN  IdText("PT", year, ZeroPad(Digits(new_seq), IdWidth))

\* a row of Patient: the clinic and the patient_id
PatientRow(clinic, patient_id) == [clinic |-> clinic, patient_id |-> patient_id]

\* unique_together = ["clinic", "patient_id"]
ViolatesUnique(rows, row) ==
    \E other \in rows : other.clinic = row.clinic /\ other.patient_id = row.patient_id

\* sequence numbers of the ids found in the tables explored
SeqSamples == {1, 2, 9999, 10000}

\* the rows a table is drawn from: this year's of clinic A over the sample,
\* one of last year, and one of clinic B
SampleRows ==
    {PatientRow("A", IdText("PT", ThisYear, ZeroPad(Digits(n), IdWidth))) : n \in SeqSamples}
    \cup {PatientRow("A", IdText("PT", ThisYear - 1, ZeroPad(Digits(7), IdWidth)))}
    \cup {PatientRow("B", IdText("PT", ThisYear, ZeroPad(Digits(n), IdWidth))) : n \in {9999}}

\* the create requests in flight
IdRequests == 1..MaxRequests

\* a request: where it stands, the id it generated, the status it answered
IdRequest(clinic, at, patient_id, status) ==
    [clinic |-> clinic, at |-> at, patient_id |-> patient_id, status |-> status]
NoId == IdText("", 0, <<>>)

(***************************************************************************)
(* Staff accounts: apps/api/staff_views.py with StaffCreateSerializer and  *)
(* StaffUpdateSerializer of apps/users/serializers.py. An account is a row *)
(* of CustomUser; a request is made by an active account.                  *)
(***************************************************************************)
\* a row of CustomUser
Account(pk, clinic, is_owner, is_active, email, first_name, password) ==
    [ pk |-> pk, clinic |-> clinic, is_owner |-> is_owner, is_active |-> is_active,
      username |-> email, email |-> email, first_name |-> first_name,
      password |-> password ]

\* the accounts at the start: the owner and one staff member of clinic A,
\* the owner of clinic B
InitialAccounts ==
    { Account(1, "A", TRUE, TRUE, "owner@a", "Olga", "pw-owner-a"),
      Account(2, "A", FALSE, TRUE, "staff@a", "Sam", "pw-staff"),
      Account(3, "B", TRUE, TRUE, "owner@b", "Otto", "pw-owner-b") }

\* str.lower over the addresses explored
Lower(email) == IF email = "NEW@A" THEN "new@a" ELSE email

\* the fields a staff request may carry (the requests explored leave
\* first_name and last_name out)
StaffData ==
    [ email : Opt({"new@a", "NEW@A"}),
      password : Opt({"secret2"}),
      is_active : Opt(BOOLEAN) ]

\* what a staff view did: the accounts after it and its answer
StaffOutcome(accts, status, body) == [accounts |-> accts, status |-> status, body |-> body]

\* get_object_or_404(CustomUser, pk=pk, clinic=request.user.clinic)
StaffRows(accts, pk, clinic) == {a \in accts : a.pk = pk /\ a.clinic = clinic}

\* CustomUser.objects.filter(email=value, clinic=clinic).exclude(pk=...).exists()
EmailTaken(accts, email, clinic, own_pk) ==
    \E a \in accts : a.email = email /\ a.clinic = clinic /\ a.pk # own_pk

\* the unique username of AbstractUser
UsernameTaken(accts, username, own_pk) ==
    \E a \in accts : a.username = username /\ a.pk # own_pk

\* StaffListCreateView.post, lines 40-68, with StaffCreateSerializer
StaffPost(accts, requester, data, new_pk) ==
    IF ~requester.is_owner
    THEN StaffOutcome(accts, 403, "Only the clinic owner can create staff members.")
    ELSE IF data.email = NotGiven \/ data.password = NotGiven \/ data.password = Given("")
    THEN StaffOutcome(accts, 400, "errors")
    ELSE IF EmailTaken(accts, data.email[1], requester.clinic, 0)
    THEN StaffOutcome(accts, 400, "A staff member with this email already exists.")
    ELSE IF UsernameTaken(accts, Lower(data.email[1]), 0)
    THEN StaffOutcome(accts, 500, "IntegrityError")
    ELSE StaffOutcome(
             accts \cup {Account(new_pk, requester.clinic, FALSE, TRUE, Lower(data.email[1]),
                                 "",
                                 data.password[1])},
             201, "Staff member created successfully.")

\* StaffUpdateSerializer.update, lines 244-261 of users/serializers.py
StaffUpdate(staff, data) ==
    [staff EXCEPT
        !.email = IF data.email = NotGiven THEN @ ELSE Lower(data.email[1]),
        !.username = IF data.email = NotGiven THEN @ ELSE Lower(data.email[1]),
        !.is_active = IF data.is_active = NotGiven THEN @ ELSE data.is_active[1],
        !.password = IF data.password = NotGiven \/ data.password = Given("")
                     THEN @ ELSE data.password[1]]

\* StaffDetailView.put, lines 99-136
StaffPut(accts, requester, pk, data) ==
    LET found_rows == StaffRows(accts, pk, requester.clinic)
        staff == CHOOSE a \in found_rows : TRUE
    IN  IF ~requester.is_owner
        THEN StaffOutcome(accts, 403, "Only the clinic owner can update staff members.")
        ELSE IF found_rows = {}
        THEN StaffOutcome(accts, 404, "Not found.")
        ELSE IF staff.is_owner
        THEN StaffOutcome(accts, 400, "Cannot modify the clinic owner via this endpoint.")
        ELSE IF data.email # NotGiven /\ EmailTaken(accts, data.email[1], requester.clinic, staff.pk)
        THEN StaffOutcome(accts, 400, "A staff member with this email already exists.")
        ELSE IF data.email # NotGiven /\ UsernameTaken(accts, Lower(data.email[1]), staff.pk)
        THEN StaffOutcome(accts, 500, "IntegrityError")
        ELSE StaffOutcome((accts \ {staff}) \cup {StaffUpdate(staff, data)},
                          200, "Staff member updated successfully.")

\* the deactivation without the test of the target
StaffDelete_NoOwnerTest(accts, requester, pk) ==
    LET found_rows == StaffRows(accts, pk, requester.clinic)
        staff == CHOOSE a \in found_rows : TRUE
    IN  IF ~requester.is_owner
        THEN StaffOutcome(accts, 403, "Only the clinic owner can deactivate staff members.")
        ELSE IF found_rows = {}
        THEN StaffOutcome(accts, 404, "Not found.")
        ELSE StaffOutcome((accts \ {staff}) \cup {[staff EXCEPT !.is_active = FALSE]},
                          200, "Staff member deactivated successfully.")

\* StaffDetailView.delete, lines 138-166
StaffDelete(accts, requester, pk) ==
    LET found_rows == StaffRows(accts, pk, requester.clinic)
        staff == CHOOSE a \in found_rows : TRUE
    IN  IF ~requester.is_owner
        THEN StaffOutcome(accts, 403, "Only the clinic owner can deactivate staff members.")
        ELSE IF found_rows = {}
        THEN StaffOutcome(accts, 404, "Not found.")
        ELSE IF staff.is_owner
        THEN StaffOutcome(accts, 400, "Cannot deactivate the clinic owner.")
        ELSE StaffOutcome((accts \ {staff}) \cup {[staff EXCEPT !.is_active = FALSE]},
                          200, "Staff member deactivated successfully.")

\* the answer of a staff view with the request it answers
StaffResponse(op, requester_pk, pk, status, body) ==
    [op |-> op, requester |-> requester_pk, pk |-> pk, status |-> status, body |-> body]
NoStaffResponse == StaffResponse("", 0, 0, 0, "")

\* the accounts that can make a request: JWT authentication refuses an
\* inactive account
Requesters(accts) == {a \in accts : a.is_active}

\* the primary key of the next row
NextPk(accts) == Cardinality(accts) + 1

(***************************************************************************)
(* Roles: apps/api/role_views.py with RoleCreateUpdateSerializer of        *)
(* apps/users/serializers.py. A role is a row of Role together with the    *)
(* policies its RolePolicy rows attach.                                    *)
(***************************************************************************)
\* the rows of Policy
Policies == {1, 2}
\* a primary key no Policy has
UnknownPolicy == 9

\* a row of Role with its policies
RoleRow(pk, clinic, name, slug, is_system, is_admin, policies) ==
    [ pk |-> pk, clinic |-> clinic, name |-> name, slug |-> slug,
      is_system |-> is_system, is_admin |-> is_admin, policies |-> policies ]

\* the roles at the start: a system role and a custom role of clinic A
InitialRoles ==
    { RoleRow(1, "A", "Doctor", "doctor", TRUE, FALSE, {1}),
      RoleRow(2, "A", "Intern", "intern", FALSE, FALSE, {}) }

\* request.data with the keys it carries
RolePayload(name, slug, is_admin, policy_ids) ==
    [name |-> name, slug |-> slug, is_admin |-> is_admin, policy_ids |-> policy_ids]

\* a request that carries none of the keys
NoRoleData == RolePayload(NotGiven, NotGiven, NotGiven, NotGiven)

\* the requests explored: no key, a name and slug, a slug in use, is_admin
\* alone, all keys together, and a policy key that no Policy has; a request refused before its
\* data is read is explored with NoRoleData alone
RoleData ==
    { NoRoleData,
      RolePayload(Given("Renamed"), Given("renamed"), NotGiven, NotGiven),
      RolePayload(Given("Renamed"), Given("doctor"), NotGiven, NotGiven),
      RolePayload(NotGiven, NotGiven, Given(TRUE), NotGiven),
      RolePayload(Given("Renamed"), Given("renamed"), Given(TRUE), Given({2})),
      RolePayload(NotGiven, NotGiven, NotGiven, Given({1, UnknownPolicy})) }

\* the users who ask: request.user.clinic and request.user.is_owner
RoleUsers ==
    { [clinic |-> "A", is_owner |-> TRUE],
      [clinic |-> "A", is_owner |-> FALSE],
      [clinic |-> "B", is_owner |-> TRUE] }

\* what a role view did: the rows after it and its answer
RoleOutcome(rows, status, body) == [roles |-> rows, status |-> status, body |-> body]

\* get_object_or_404(Role, pk=pk, clinic=request.user.clinic)
RoleRows(rows, pk, clinic) == {r \in rows : r.pk = pk /\ r.clinic = clinic}

\* RoleCreateUpdateSerializer.validate_slug
SlugTaken(rows, slug, clinic, own_pk) ==
    \E r \in rows : r.clinic = clinic /\ r.slug = slug /\ r.pk # own_pk

\* PrimaryKeyRelatedField(queryset=Policy.objects.all(), many=True): an
\* unknown key makes the data invalid
PolicyIdsValid(data) == data.policy_ids = NotGiven \/ data.policy_ids[1] \subseteq Policies

\* RoleCreateUpdateSerializer.update
RoleUpdate(role, data) ==
    [role EXCEPT
        !.name = IF data.name = NotGiven THEN @ ELSE data.name[1],
        !.slug = IF data.slug = NotGiven THEN @ ELSE data.slug[1],
        !.is_admin = IF data.is_admin = NotGiven THEN @ ELSE data.is_admin[1],
        !.policies = IF data.policy_ids = NotGiven THEN @ ELSE data.policy_ids[1]]

\* lines 114-129: is_admin as given, and the policies replaced by those of
\* the given keys that exist
SystemRoleUpdate(role, data) ==
    [role EXCEPT
        !.is_admin = IF data.is_admin = NotGiven THEN @ ELSE data.is_admin[1],
        !.policies = IF data.policy_ids = NotGiven THEN @
                     ELSE data.policy_ids[1] \cap Policies]

\* RoleListCreateView.post, lines 45-68
RolePost(rows, user, data, new_pk) ==
    IF ~user.is_owner
    THEN RoleOutcome(rows, 403, "Only clinic owners can create roles")
    ELSE IF data.name = NotGiven \/ data.slug = NotGiven \/ ~PolicyIdsValid(data)
    THEN RoleOutcome(rows, 400, "errors")
    ELSE IF SlugTaken(rows, data.slug[1], user.clinic, 0)
    THEN RoleOutcome(rows, 400, "A role with this slug already exists in your clinic.")
    ELSE RoleOutcome(
             rows \cup {RoleUpdate(RoleRow(new_pk, user.clinic, "", "", FALSE, FALSE, {}), data)},
             201, "Role created successfully")

\* the update that hands a system role to the serializer like any other
RolePut_Unfiltered(rows, user, pk, data) ==
    LET found_rows == RoleRows(rows, pk, user.clinic)
        role == CHOOSE r \in found_rows : TRUE
    IN  IF ~user.is_owner
        THEN RoleOutcome(rows, 403, "Only clinic owners can update roles")
        ELSE IF found_rows = {}
        THEN RoleOutcome(rows, 404, "Not found.")
        ELSE IF ~PolicyIdsValid(data)
        THEN RoleOutcome(rows, 400, "errors")
        ELSE IF data.slug # NotGiven /\ SlugTaken(rows, data.slug[1], user.clinic, role.pk)
        THEN RoleOutcome(rows, 400, "A role with this slug already exists in your clinic.")
        ELSE RoleOutcome((rows \ {role}) \cup {RoleUpdate(role, data)},
                         200, "Role updated successfully")

\* RoleDetailView.put, lines 94-153
RolePut(rows, user, pk, data) ==
    LET found_rows == RoleRows(rows, pk, user.clinic)
        role == CHOOSE r \in found_rows : TRUE
    IN  IF ~user.is_owner
        THEN RoleOutcome(rows, 403, "Only clinic owners can update roles")
        ELSE IF found_rows = {}
        THEN RoleOutcome(rows, 404, "Not found.")
        ELSE IF role.is_system
        THEN IF data.is_admin = NotGiven /\ data.policy_ids = NotGiven
             THEN RoleOutcome(rows, 400, "System roles can only have policies updated")
             ELSE RoleOutcome((rows \ {role}) \cup {SystemRoleUpdate(role, data)},
                              200, "Role updated successfully")
        ELSE IF ~PolicyIdsValid(data)
        THEN RoleOutcome(rows, 400, "errors")
        ELSE IF data.slug # NotGiven /\ SlugTaken(rows, data.slug[1], user.clinic, role.pk)
        THEN RoleOutcome(rows, 400, "A role with this slug already exists in your clinic.")
        ELSE RoleOutcome((rows \ {role}) \cup {RoleUpdate(role, data)},
                         200, "Role updated successfully")

\* RoleDetailView.delete, lines 155-177
RoleDelete(rows, user, pk) ==
    LET found_rows == RoleRows(rows, pk, user.clinic)
        role == CHOOSE r \in found_rows : TRUE
    IN  IF ~user.is_owner
        THEN RoleOutcome(rows, 403, "Only clinic owners can delete roles")
        ELSE IF found_rows = {}
        THEN RoleOutcome(rows, 404, "Not found.")
        ELSE IF role.is_system
        THEN RoleOutcome(rows, 400, "System roles cannot be deleted")
        ELSE RoleOutcome(rows \ {role}, 200, "Role deleted successfully")

\* the answer of a role view with the request it answers
RoleResponse(op, pk, status, body) ==
    [op |-> op, pk |-> pk, status |-> status, body |-> body]
NoRoleResponse == RoleResponse("", 0, 0, "")

(***************************************************************************)
(* The states of the parts that are not running.                           *)
(***************************************************************************)
NoKwargs == [model |-> "", config |-> NoConfig]
NoCompletion == Raised(Exception("not called", ""))

IdleConsultation == <<>>
NoContext == <<>>

CtxIdle ==
    /\ consultation = IdleConsultation
    /\ history = <<>>
    /\ ctxpc = "idle"
    /\ ctxout = Pending

PromptIdle ==
    /\ context = NoContext
    /\ messages = <<>>
    /\ sent = <<>>

ViewIdle ==
    /\ request = [clinic |-> NoClinic, pk |-> 0]
    /\ db = {}
    /\ viewpc = "idle"
    /\ found = IdleConsultation
    /\ view_history = <<>>
    /\ view_context = NoContext
    /\ soap_result = Pending
    /\ response = NoResponse

BillingIdle ==
    /\ invoices = {}
    /\ consultation_rows = {}
    /\ lastpk = 0
    /\ invresp = NoBillingResponse

IdIdle ==
    /\ patient_rows = {}
    /\ idreqs = [r \in IdRequests |-> IdRequest(NoClinic, "idle", NoId, 0)]

StaffIdle ==
    /\ users = {}
    /\ staffresp = NoStaffResponse

RoleIdle ==
    /\ roles = {}
    /\ lastrole = 0
    /\ roleresp = NoRoleResponse

SoapIdle ==
    /\ settings = [DEFAULT_LLM_MODEL |-> "", ANTHROPIC_API_KEY |-> "", OPENAI_API_KEY |-> ""]
    /\ pc = "idle"
    /\ kwargs = NoKwargs
    /\ calls = 0
    /\ completion = NoCompletion
    /\ content = Unbound
    /\ exc = NoException
    /\ outcome = Pending
    /\ PromptIdle

(***************************************************************************)
(* The state machine of one invocation of generate_soap_with_ai.           *)
Init ==
    /\ settings \in SettingsSpace
    /\ context = SampleContext
    /\ pc = "prompt"
    /\ messages = <<>>
    /\ sent = <<>>
    /\ kwargs = NoKwargs
    /\ calls = 0
    /\ completion = NoCompletion
    /\ content = Unbound
    /\ exc = NoException
    /\ outcome = Pending
    /\ CtxIdle
    /\ ViewIdle
    /\ BillingIdle
    /\ IdIdle
    /\ StaffIdle
    /\ RoleIdle

\* lines 198-221: the user prompt and the two messages
BuildMessages ==
    /\ pc = "prompt"
    /\ messages' = Messages(context)
    /\ pc' = "kwargs"
    /\ UNCHANGED <<settings, kwargs, calls, completion, content, exc, outcome,
                   context, sent, soapRest>>

\* line 224, the argument **_get_llm_kwargs() is evaluated before the call
EvalKwargs ==
    /\ pc = "kwargs"
    /\ LET r == _get_llm_kwargs(settings)
       IN  IF r.raised
           THEN /\ exc' = r.exc
                /\ pc' = HandlerFor(r.exc)
                /\ UNCHANGED kwargs
           ELSE /\ kwargs' = r.value
                /\ pc' = "completion"
                /\ UNCHANGED exc
    /\ UNCHANGED <<settings, calls, completion, content, outcome, promptVars, soapRest>>

\* line 224, litellm.completion(messages=messages, **kwargs)
Completion ==
    /\ pc = "completion"
    /\ calls' = calls + 1
    /\ sent' = Append(sent, messages)
    /\ \E r \in CompletionOutcomes :
          /\ completion' = r
          /\ IF r.raised
             THEN exc' = r.exc /\ pc' = HandlerFor(r.exc)
             ELSE exc' = exc /\ pc' = "parse"
    /\ UNCHANGED <<settings, kwargs, content, outcome, context, messages, soapRest>>

\* lines 225-252
Parse ==
    /\ pc = "parse"
    /\ LET p == ParseReply(completion.value)
       IN  /\ content' = p.content
           /\ IF p.result.raised
              THEN /\ exc' = p.result.exc
                   /\ pc' = HandlerFor(p.result.exc)
                   /\ UNCHANGED outcome
              ELSE /\ outcome' = p.result
                   /\ pc' = "done"
                   /\ UNCHANGED exc
    /\ UNCHANGED <<settings, kwargs, calls, completion, promptVars, soapRest>>

\* lines 254-257
HandleJSONDecodeError ==
    /\ pc = "except_json"
    /\ outcome' = ExceptJSONDecodeError(exc, content)
    /\ pc' = "done"
    /\ UNCHANGED <<settings, kwargs, calls, completion, content, exc, promptVars, soapRest>>

\* lines 258-260
HandleException ==
    /\ pc = "except_exception"
    /\ outcome' = ExceptException(exc, content)
    /\ pc' = "done"
    /\ UNCHANGED <<settings, kwargs, calls, completion, content, exc, promptVars, soapRest>>

Next ==
    \/ BuildMessages
    \/ EvalKwargs
    \/ Completion
    \/ Parse
    \/ HandleJSONDecodeError
    \/ HandleException

Spec == Init /\ [][Next]_vars

(***************************************************************************)
(* The state machine of one call of build_soap_context.                    *)
(***************************************************************************)
InitCtx ==
    /\ consultation \in Consultations
    /\ history \in Histories
    /\ ctxpc = "start"
    /\ ctxout = Pending
    /\ SoapIdle
    /\ ViewIdle
    /\ BillingIdle
    /\ IdIdle
    /\ StaffIdle
    /\ RoleIdle

\* one call build_soap_context(consultation, patient_history)
BuildSoapContext ==
    /\ ctxpc = "start"
    /\ ctxout' = build_soap_context(consultation, history)
    /\ ctxpc' = "done"
    /\ UNCHANGED <<consultation, history, ctxRest>>

NextCtx == BuildSoapContext

SpecCtx == InitCtx /\ [][NextCtx]_vars

(***************************************************************************)
(* The prompt of generate_soap_with_ai over the contexts it may be given.  *)
(***************************************************************************)
InitPrompt ==
    /\ settings = [DEFAULT_LLM_MODEL |-> "gpt-4o", ANTHROPIC_API_KEY |-> "",
                   OPENAI_API_KEY |-> "sk-oai"]
    /\ context \in Contexts
    /\ pc = "prompt"
    /\ messages = <<>>
    /\ sent = <<>>
    /\ kwargs = NoKwargs
    /\ calls = 0
    /\ completion = NoCompletion
    /\ content = Unbound
    /\ exc = NoException
    /\ outcome = Pending
    /\ CtxIdle
    /\ ViewIdle
    /\ BillingIdle
    /\ IdIdle
    /\ StaffIdle
    /\ RoleIdle

NextPrompt == BuildMessages

SpecPrompt == InitPrompt /\ [][NextPrompt]_vars

(***************************************************************************)
(* The state machine of one request to GenerateSOAPView.post.              *)
(***************************************************************************)
\* requests explored under every setting, on the small table
InitViewSettings ==
    /\ settings \in ViewSettings
    /\ db = SmallTable
    /\ request \in [clinic : Clinics \cup {NoClinic}, pk : 1..5]

\* requests explored over the tables of one patient's visits
InitViewHistory ==
    /\ settings = [DEFAULT_LLM_MODEL |-> "gpt-4o", ANTHROPIC_API_KEY |-> "",
                   OPENAI_API_KEY |-> "sk-oai", DEBUG |-> FALSE]
    /\ db \in HistoryTables
    /\ request \in [clinic : {"A"}, pk : 1..(MaxPrior + 4)]
    /\ request.pk <= Cardinality(db) + 1

InitView ==
    /\ InitViewSettings \/ InitViewHistory
    /\ viewpc = "start"
    /\ found = IdleConsultation
    /\ view_history = <<>>
    /\ view_context = NoContext
    /\ soap_result = Pending
    /\ response = NoResponse
    /\ pc = "idle"
    /\ kwargs = NoKwargs
    /\ calls = 0
    /\ completion = NoCompletion
    /\ content = Unbound
    /\ exc = NoException
    /\ outcome = Pending
    /\ PromptIdle
    /\ CtxIdle
    /\ BillingIdle
    /\ IdIdle
    /\ StaffIdle
    /\ RoleIdle

\* lines 196-213: the user's clinic and the provider keys
ViewCheck ==
    /\ viewpc = "start"
    /\ LET early == EarlyResponse(request.clinic, settings)
       IN  IF early # NoResponse
           THEN response' = early /\ viewpc' = "done"
           ELSE response' = response /\ viewpc' = "get"
    /\ UNCHANGED <<request, db, found, view_history, view_context, soap_result,
                   viewRest>>

\* lines 215-230: the consultation and its chief complaint
ViewGetConsultation ==
    /\ viewpc = "get"
    /\ LET r == GetObjectOr404(db, request.pk, request.clinic)
       IN  IF r.raised
           THEN /\ response' = NotFoundResponse
                /\ viewpc' = "done"
                /\ UNCHANGED found
           ELSE /\ found' = r.value
                /\ IF ~Truthy(r.value.chief_complaint)
                   THEN response' = NoComplaintResponse /\ viewpc' = "done"
                   ELSE response' = response /\ viewpc' = "history"
    /\ UNCHANGED <<request, db, view_history, view_context, soap_result, viewRest>>

\* lines 232-240: the rows the history query yields
ViewQueryHistory ==
    /\ viewpc = "history"
    /\ \E h \in PatientHistoryQuery(db, found, request.clinic, request.pk) :
          view_history' = h
    /\ viewpc' = "context"
    /\ UNCHANGED <<request, db, found, view_context, soap_result, response, viewRest>>

\* line 243
ViewBuildContext ==
    /\ viewpc = "context"
    /\ LET r == build_soap_context(found, view_history)
       IN  IF r.raised
           THEN /\ response' = UnhandledResponse(r.exc, settings)
                /\ viewpc' = "done"
                /\ UNCHANGED view_context
           ELSE /\ view_context' = r.value
                /\ viewpc' = "generate"
                /\ UNCHANGED response
    /\ UNCHANGED <<request, db, found, view_history, soap_result, viewRest>>

\* lines 245-267
ViewGenerate ==
    /\ viewpc = "generate"
    /\ \E comp \in ViewCompletions :
          LET r == generate_soap_with_ai(settings, comp)
          IN  /\ soap_result' = r
              /\ response' = IF r.raised
                             THEN FailureResponse(r.exc, settings)
                             ELSE SuccessResponse(r.value, view_context)
    /\ viewpc' = "done"
    /\ UNCHANGED <<request, db, found, view_history, view_context, viewRest>>

NextView ==
    \/ ViewCheck
    \/ ViewGetConsultation
    \/ ViewQueryHistory
    \/ ViewBuildContext
    \/ ViewGenerate

SpecView == InitView /\ [][NextView]_vars

(***************************************************************************)
(* The state machine of the invoice API.                                   *)
(***************************************************************************)
InitInvoice ==
    /\ consultation_rows = {BillingConsultation}
    /\ invoices = {}
    /\ lastpk = 0
    /\ invresp = NoBillingResponse
    /\ SoapIdle
    /\ CtxIdle
    /\ ViewIdle
    /\ IdIdle
    /\ StaffIdle
    /\ RoleIdle

\* InvoiceListCreateView.post, billing_views.py lines 66-119
InvoiceListCreateView_post ==
    /\ lastpk < MaxCreated
    /\ \E user_clinic \in BillingUsers, consultation_id \in {0, 1, 2} :
          LET answer(status, body) ==
                  BillingResponse("create", user_clinic, lastpk + 1, status, body)
          IN  IF user_clinic = NoClinic
              THEN /\ invresp' = answer(400, "User has no clinic")
                   /\ UNCHANGED <<invoices, lastpk>>
              ELSE IF consultation_id = 0
              THEN /\ invresp' = answer(400, "Consultation is required")
                   /\ UNCHANGED <<invoices, lastpk>>
              ELSE IF consultation_id \notin consultation_rows \/ user_clinic # BillingClinic
              THEN /\ invresp' = answer(404, "Consultation not found")
                   /\ UNCHANGED <<invoices, lastpk>>
              ELSE IF \E inv \in invoices : inv.consultation = consultation_id
              THEN /\ invresp' = answer(400, "An invoice already exists for this consultation")
                   /\ UNCHANGED <<invoices, lastpk>>
              ELSE \E data \in InvoiceData :
                   IF data.items = NotGiven
                   THEN /\ invresp' = answer(400, "items: This field is required.")
                        /\ UNCHANGED <<invoices, lastpk>>
                   ELSE /\ invoices' = Saved(invoices, InvoiceCreate(lastpk + 1, data))
                        /\ lastpk' = lastpk + 1
                        /\ invresp' = answer(201, "Invoice created successfully")
    /\ UNCHANGED <<consultation_rows, billingRest>>

\* InvoiceDetailView.put, lines 152-186
InvoiceDetailView_put ==
    /\ \E user_clinic \in BillingUsers, pk \in 1..MaxCreated :
          LET answer(status, body) == BillingResponse("update", user_clinic, pk, status, body)
              found_rows == InvoiceRows(invoices, pk, user_clinic)
              inv == TheRow(found_rows)
          IN  IF found_rows = {}
              THEN invresp' = answer(404, "Not found.") /\ UNCHANGED invoices
              ELSE IF inv.status # "draft"
              THEN /\ invresp' = answer(400, "Only draft invoices can be edited")
                   /\ UNCHANGED invoices
              ELSE \E data \in InvoiceData :
                   /\ invoices' = Saved(invoices, InvoiceUpdate(inv, data))
                   /\ invresp' = answer(200, "Invoice updated successfully")
    /\ UNCHANGED <<lastpk, consultation_rows, billingRest>>

\* InvoiceDetailView.delete, lines 188-209
InvoiceDetailView_delete ==
    /\ \E user_clinic \in BillingUsers, pk \in 1..MaxCreated :
          LET answer(status, body) == BillingResponse("delete", user_clinic, pk, status, body)
              found_rows == InvoiceRows(invoices, pk, user_clinic)
              inv == TheRow(found_rows)
          IN  IF found_rows = {}
              THEN invresp' = answer(404, "Not found.") /\ UNCHANGED invoices
              ELSE IF inv.status # "draft"
              THEN /\ invresp' = answer(400, "Only draft invoices can be deleted")
                   /\ UNCHANGED invoices
              ELSE /\ invoices' = Deleted(invoices, inv)
                   /\ invresp' = answer(200, "Invoice deleted successfully")
    /\ UNCHANGED <<lastpk, consultation_rows, billingRest>>

\* InvoicePayView.patch, lines 335-363
InvoicePayView_patch ==
    /\ \E user_clinic \in BillingUsers, pk \in 1..MaxCreated,
          payment_reference \in {"", "OR-1"}, tick \in 1..MaxTick :
          LET answer(status, body) == BillingResponse("pay", user_clinic, pk, status, body)
              found_rows == InvoiceRows(invoices, pk, user_clinic)
              inv == TheRow(found_rows)
              r == InvoicePaySerializer_update(
                       inv, [payment_reference |-> payment_reference], PyDateTime(tick))
          IN  IF found_rows = {}
              THEN invresp' = answer(404, "Not found.") /\ UNCHANGED invoices
              ELSE IF r.raised
              THEN invresp' = answer(400, ErrorBody(r.exc)) /\ UNCHANGED invoices
              ELSE /\ invoices' = Saved(invoices, r.value)
                   /\ invresp' = answer(200, "Payment recorded successfully")
    /\ UNCHANGED <<lastpk, consultation_rows, billingRest>>

\* InvoiceFinalizeView.patch, lines 373-401
InvoiceFinalizeView_patch ==
    /\ \E user_clinic \in BillingUsers, pk \in 1..MaxCreated :
          LET answer(status, body) == BillingResponse("finalize", user_clinic, pk, status, body)
              found_rows == InvoiceRows(invoices, pk, user_clinic)
              inv == TheRow(found_rows)
              r == InvoiceFinalizeSerializer_update(inv)
          IN  IF found_rows = {}
              THEN invresp' = answer(404, "Not found.") /\ UNCHANGED invoices
              ELSE IF r.raised
              THEN invresp' = answer(400, ErrorBody(r.exc)) /\ UNCHANGED invoices
              ELSE /\ invoices' = Saved(invoices, r.value)
                   /\ invresp' = answer(200, "Invoice finalized successfully")
    /\ UNCHANGED <<lastpk, consultation_rows, billingRest>>

\* InvoiceCancelView.patch, lines 411-439
InvoiceCancelView_patch ==
    /\ \E user_clinic \in BillingUsers, pk \in 1..MaxCreated :
          LET answer(status, body) == BillingResponse("cancel", user_clinic, pk, status, body)
              found_rows == InvoiceRows(invoices, pk, user_clinic)
              inv == TheRow(found_rows)
              r == InvoiceCancelSerializer_update(inv)
          IN  IF found_rows = {}
              THEN invresp' = answer(404, "Not found.") /\ UNCHANGED invoices
              ELSE IF r.raised
              THEN invresp' = answer(400, ErrorBody(r.exc)) /\ UNCHANGED invoices
              ELSE /\ invoices' = Saved(invoices, r.value)
                   /\ invresp' = answer(200, "Invoice cancelled successfully")
    /\ UNCHANGED <<lastpk, consultation_rows, billingRest>>

\* ConsultationDetailView.delete, consultation_views.py lines 173-184
ConsultationDetailView_delete ==
    /\ \E user_clinic \in BillingUsers, pk \in {1, 2} :
          LET answer(status, body) ==
                  BillingResponse("delete consultation", user_clinic, pk, status, body)
          IN  IF pk \notin consultation_rows \/ user_clinic # BillingClinic
              THEN /\ invresp' = answer(404, "Not found.")
                   /\ UNCHANGED <<consultation_rows, invoices>>
              ELSE /\ consultation_rows' = consultation_rows \ {pk}
                   /\ invoices' = CascadeDeleted(invoices, pk)
                   /\ invresp' = answer(200, "Consultation deleted successfully")
    /\ UNCHANGED <<lastpk, billingRest>>

NextInvoice ==
    \/ InvoiceListCreateView_post
    \/ InvoiceDetailView_put
    \/ InvoiceDetailView_delete
    \/ InvoicePayView_patch
    \/ InvoiceFinalizeView_patch
    \/ InvoiceCancelView_patch
    \/ ConsultationDetailView_delete

SpecInvoice == InitInvoice /\ [][NextInvoice]_vars

(***************************************************************************)
(* The state machine of the patient create requests: each request reads    *)
(* the greatest id (generate_patient_id) and saves its row in a later      *)
(* step, so that the requests of several workers interleave.               *)
(***************************************************************************)
InitIds ==
    /\ patient_rows \in SUBSET SampleRows
    /\ idreqs \in [IdRequests -> {IdRequest(c, "start", NoId, 0) : c \in Clinics}]
    /\ SoapIdle
    /\ CtxIdle
    /\ ViewIdle
    /\ BillingIdle
    /\ StaffIdle
    /\ RoleIdle

\* PatientListCreateView.post, lines 62-73: is_valid() and generate_patient_id
PatientPost_Generate(r) ==
    /\ idreqs[r].at = "start"
    /\ \E valid \in BOOLEAN :
          idreqs' = [idreqs EXCEPT ![r] =
              IF valid
              THEN IdRequest(@.clinic, "generated",
                             generate_patient_id(patient_rows, @.clinic, ThisYear), 0)
              ELSE IdRequest(@.clinic, "done", NoId, 400)]
    /\ UNCHANGED <<patient_rows, idRest>>

\* PatientListCreateView.post, lines 74-82: serializer.save(clinic=clinic,
\* patient_id=patient_id); the unique_together of Patient.Meta makes the
\* insert of a second row with the clinic's id fail with IntegrityError
PatientPost_Save(r) ==
    /\ idreqs[r].at = "generated"
    /\ LET row == PatientRow(idreqs[r].clinic, idreqs[r].patient_id)
       IN  IF ViolatesUnique(patient_rows, row)
           THEN /\ idreqs' = [idreqs EXCEPT ![r].at = "done", ![r].status = 500]
                /\ UNCHANGED patient_rows
           ELSE /\ patient_rows' = patient_rows \cup {row}
                /\ idreqs' = [idreqs EXCEPT ![r].at = "done", ![r].status = 201]
    /\ UNCHANGED idRest

\* PatientDetailView.delete, lines 139-150
PatientDetailView_delete ==
    /\ \E row \in patient_rows : patient_rows' = patient_rows \ {row}
    /\ UNCHANGED <<idreqs, idRest>>

NextIds ==
    \/ \E r \in IdRequests : PatientPost_Generate(r)
    \/ \E r \in IdRequests : PatientPost_Save(r)
    \/ PatientDetailView_delete

SpecIds == InitIds /\ [][NextIds]_vars

(***************************************************************************)
(* The state machine of the staff API.                                     *)
(***************************************************************************)
InitStaff ==
    /\ users = InitialAccounts
    /\ staffresp = NoStaffResponse
    /\ SoapIdle
    /\ CtxIdle
    /\ ViewIdle
    /\ BillingIdle
    /\ IdIdle
    /\ RoleIdle

StaffListCreateView_post ==
    /\ Cardinality(users) < Cardinality(InitialAccounts) + MaxStaff
    /\ \E requester \in Requesters(users), data \in StaffData :
          LET out == StaffPost(users, requester, data, NextPk(users))
          IN  /\ users' = out.accounts
              /\ staffresp' = StaffResponse("create", requester.pk, NextPk(users),
                                            out.status, out.body)
    /\ UNCHANGED staffRest

StaffDetailView_put ==
    /\ \E requester \in Requesters(users), data \in StaffData,
          pk \in 1..(Cardinality(InitialAccounts) + MaxStaff) :
          LET out == StaffPut(users, requester, pk, data)
          IN  /\ users' = out.accounts
              /\ staffresp' = StaffResponse("update", requester.pk, pk, out.status, out.body)
    /\ UNCHANGED staffRest

StaffDetailView_delete ==
    /\ \E requester \in Requesters(users),
          pk \in 1..(Cardinality(InitialAccounts) + MaxStaff) :
          LET out == StaffDelete(users, requester, pk)
          IN  /\ users' = out.accounts
              /\ staffresp' = StaffResponse("deactivate", requester.pk, pk,
                                            out.status, out.body)
    /\ UNCHANGED staffRest

NextStaff ==
    \/ StaffListCreateView_post
    \/ StaffDetailView_put
    \/ StaffDetailView_delete

SpecStaff == InitStaff /\ [][NextStaff]_vars

(***************************************************************************)
(* The state machine of the role API.                                      *)
(***************************************************************************)
InitRole ==
    /\ roles = InitialRoles
    /\ lastrole = Cardinality(InitialRoles)
    /\ roleresp = NoRoleResponse
    /\ SoapIdle
    /\ CtxIdle
    /\ ViewIdle
    /\ BillingIdle
    /\ IdIdle
    /\ StaffIdle

RoleListCreateView_post ==
    /\ lastrole < Cardinality(InitialRoles) + MaxRoles
    /\ \E user \in RoleUsers :
       \E data \in (IF user.is_owner THEN RoleData ELSE {NoRoleData}) :
          LET out == RolePost(roles, user, data, lastrole + 1)
          IN  /\ roles' = out.roles
              /\ lastrole' = IF out.status = 201 THEN lastrole + 1 ELSE lastrole
              /\ roleresp' = RoleResponse("create", lastrole + 1, out.status, out.body)
    /\ UNCHANGED roleRest

RoleDetailView_put ==
    /\ \E user \in RoleUsers, pk \in 1..(Cardinality(InitialRoles) + MaxRoles) :
       \E data \in (IF user.is_owner /\ RoleRows(roles, pk, user.clinic) # {}
                    THEN RoleData ELSE {NoRoleData}) :
          LET out == RolePut(roles, user, pk, data)
          IN  /\ roles' = out.roles
              /\ roleresp' = RoleResponse("update", pk, out.status, out.body)
    /\ UNCHANGED <<lastrole, roleRest>>

RoleDetailView_delete ==
    /\ \E user \in RoleUsers, pk \in 1..(Cardinality(InitialRoles) + MaxRoles) :
          LET out == RoleDelete(roles, user, pk)
          IN  /\ roles' = out.roles
              /\ roleresp' = RoleResponse("delete", pk, out.status, out.body)
    /\ UNCHANGED <<lastrole, roleRest>>

NextRole ==
    \/ RoleListCreateView_post
    \/ RoleDetailView_put
    \/ RoleDetailView_delete

SpecRole == InitRole /\ [][NextRole]_vars

(***************************************************************************)
(* Properties of generate_soap_with_ai (specification Spec).               *)
(***************************************************************************)
Finished == pc = "done"
GotText == ~completion.raised /\ completion.value.t = "str"
ReplyText == completion.value.text
Unconfigured ==
    /\ settings.DEFAULT_LLM_MODEL = ""
    /\ settings.ANTHROPIC_API_KEY = ""
    /\ settings.OPENAI_API_KEY = ""

\* an object holding only subjective and plan
SubjectiveAndPlan ==
    [k \in KEYS |-> IF k \in {"subjective", "plan"} THEN Quote("a") ELSE ABSENT]

\* the Python value a value token stands for
ValueOf(tok) == IF tok = "null" THEN PyNone ELSE PyStr(Unquote(tok))

\* C1: every successful return is a mapping with exactly the four keys
\* subjective, objective, assessment, plan; a key the decoded JSON object
\* omits is present with the value ""; an object holding only subjective and
\* plan is returned with objective and assessment equal to "".
C1_FourKeysAlwaysPresent ==
    /\ (Finished /\ ~outcome.raised) =>
          /\ outcome.value.t = "dict"
          /\ DOMAIN outcome.value.m = KEYS
          /\ \A k \in KEYS :
                k \notin DOMAIN JsonLoads(content.text).value.m
                   => outcome.value.m[k] = PyStr("")
    /\ (Finished /\ GotText
          /\ ReplyText \in {OneLine(SubjectiveAndPlan), MultiLine(SubjectiveAndPlan)}) =>
          /\ ~outcome.raised
          /\ outcome.value.m["subjective"] = PyStr("a")
          /\ outcome.value.m["plan"] = PyStr("a")
          /\ outcome.value.m["objective"] = PyStr("")
          /\ outcome.value.m["assessment"] = PyStr("")

C1_Witness ==
    /\ Finished /\ GotText
    /\ ReplyText = OneLine(SubjectiveAndPlan)
    /\ ~outcome.raised
    /\ outcome.value.m["objective"] = PyStr("")

\* C2: when the reply's text, after strip and fence-stripping, is rejected by
\* the JSON decoder, the invocation ends by raising the parse error
\* (ValueError "AI response was not valid JSON. Please try again.") and
\* returns no mapping.
C2_MalformedRaisesParseError ==
    (Finished /\ GotText /\ JsonLoads(StripFence(Strip(ReplyText))).raised)
        => outcome = Raised(ParseError)

C2_Witness ==
    /\ Finished /\ GotText
    /\ ReplyText = Truncated(OneLine(FourKeys))
    /\ outcome = Raised(ParseError)

\* C3: with no DEFAULT_LLM_MODEL and no API key, the invocation never calls
\* the completion endpoint and ends by raising the configuration error.
C3_NoConfigNoCall ==
    Unconfigured =>
        /\ calls = 0
        /\ pc # "completion"
        /\ Finished => outcome = Raised(ConfigurationError)

C3_Witness ==
    Unconfigured /\ Finished /\ calls = 0 /\ outcome = Raised(ConfigurationError)

\* C4: when the completion call fails with any exception, or returns a reply
\* without text, the invocation ends by raising that original failure: not
\* the parse error, not an exception raised inside an except clause.
C4_ProviderFailurePropagates ==
    (Finished /\ calls = 1 /\ ~GotText) =>
        outcome = Raised(IF completion.raised THEN completion.exc ELSE NoStripAttribute)

\* C8: a reply that is a JSON object with the four keys is returned as the
\* mapping of exactly those four values.
C8_RoundTrip ==
    \A f \in [KEYS -> ValueTokens] :
        (Finished /\ GotText /\ ReplyText \in {OneLine(f), MultiLine(f)})
            => outcome = Returned(PyDict([k \in KEYS |-> ValueOf(f[k])]))

C8_Witness ==
    /\ Finished /\ GotText
    /\ ReplyText = MultiLine(FourKeys)
    /\ outcome = Returned(PyDict([k \in KEYS |-> ValueOf(FourKeys[k])]))

\* the payload p of a reply that is p between an opening fence line and the
\* closing fence line
Inner(text) == SubSeq(text, 2, Len(text) - 1)
IsFenced(text, opening) ==
    /\ Len(text) >= 3
    /\ text[1] = opening
    /\ text[Len(text)] = <<FENCE>>
    /\ ~JsonLoads(Inner(text)).raised

\* C9: a reply that is a valid JSON payload p between the lines (fence)json
\* and (fence) ends the invocation as the reply p alone does.
C9_JsonFenceTransparent ==
    (Finished /\ GotText /\ IsFenced(ReplyText, <<FENCE, TAG>>))
        => outcome = GenerateFromReply(PyText(Inner(ReplyText)))

C9_Witness ==
    /\ Finished /\ GotText
    /\ ReplyText = FencedJson(MultiLine(FourKeys))
    /\ outcome = Returned(PyDict([k \in KEYS |-> ValueOf(FourKeys[k])]))

\* C10: a reply that is a valid JSON payload p between two plain fence lines
\* (no json tag) ends the invocation as the reply p alone does.
C10_PlainFenceTransparent ==
    (Finished /\ GotText /\ IsFenced(ReplyText, <<FENCE>>))
        => outcome = GenerateFromReply(PyText(Inner(ReplyText)))

\* the reply is pure JSON, or pure JSON behind an opening fence line with or
\* without the closing fence line: the one layer of fence
ValidJson(text) == Len(text) >= 1 /\ ~JsonLoads(text).raised
IsOpeningFence(line) == line = <<FENCE>> \/ line = <<FENCE, TAG>>
OneFenceLayer(text) ==
    LET s == Strip(text)
    IN  \/ ValidJson(s)
        \/ /\ Len(s) >= 2
           /\ IsOpeningFence(s[1])
           /\ \/ ValidJson(Tail(s))
              \/ /\ Len(s) >= 3
                 /\ s[Len(s)] = <<FENCE>>
                 /\ ValidJson(Inner(s))
HasFenceLine(text) == \E i \in 1..Len(text) : StartsWithFence(text[i])
AllButLast(text) == SubSeq(text, 1, Len(text) - 1)
FirstHalf(text) == SubSeq(text, 1, Len(text) \div 2)
SecondHalf(text) == SubSeq(text, Len(text) \div 2 + 1, Len(text))

\* C11 as stated: a reply that carries anything around the JSON beyond one
\* layer of fence (prose after the closing fence, a second fenced block, text
\* between fences) ends the invocation by raising the parse error.
C11_OnlyOneFenceTolerated ==
    (Finished /\ GotText /\ ~OneFenceLayer(ReplyText))
        => outcome = Raised(ParseError)

\* C11, what the loop of lines 229-243 does instead: a reply that does not
\* begin with a fence is decoded whole, so
\* prose before the JSON or before the opening fence raises the parse error,
\* as do prose inside the json block and two json blocks that each hold the
\* JSON; but in a reply that begins with a fence every line outside a json
\* block is discarded, so prose after the closing fence, or a plain block of
\* prose before the json block, ends the invocation as the json block alone
\* does.
C11_TextOutsideBlockDiscarded ==
    (Finished /\ GotText) =>
        /\ (~StartsWithFence(Strip(ReplyText)[1]) /\ HasFenceLine(ReplyText))
              => outcome = Raised(ParseError)
        /\ (Len(ReplyText) >= 4 /\ ReplyText[1] = <<FENCE, TAG>>
                /\ ReplyText[2] = <<PROSE>>)
              => outcome = Raised(ParseError)
        /\ (Len(ReplyText) >= 6 /\ FirstHalf(ReplyText) = SecondHalf(ReplyText)
                /\ IsFenced(FirstHalf(ReplyText), <<FENCE, TAG>>))
              => outcome = Raised(ParseError)
        /\ (Len(ReplyText) >= 4 /\ ReplyText[Len(ReplyText)] = <<PROSE>>
                /\ IsFenced(AllButLast(ReplyText), <<FENCE, TAG>>))
              => outcome = GenerateFromReply(PyText(AllButLast(ReplyText)))
        /\ (Len(ReplyText) >= 6 /\ SubSeq(ReplyText, 1, 3) = FencedPlain(<< <<PROSE>> >>)
                /\ IsFenced(SubSeq(ReplyText, 4, Len(ReplyText)), <<FENCE, TAG>>))
              => outcome = GenerateFromReply(PyText(SubSeq(ReplyText, 4, Len(ReplyText))))

C11_Witness ==
    /\ Finished /\ GotText
    /\ ReplyText = FencedThenProse(MultiLine(FourKeys))
    /\ outcome = Returned(PyDict([k \in KEYS |-> ValueOf(FourKeys[k])]))

\* C12: a reply that decodes to valid JSON other than an object (an array, a
\* string, a number, null) ends the invocation by raising the parse error,
\* not any other exception.
C12_NonObjectRaisesParseError ==
    (Finished /\ GotText
        /\ ~JsonLoads(StripFence(Strip(ReplyText))).raised
        /\ JsonLoads(StripFence(Strip(ReplyText))).value.t # "dict")
        => outcome = Raised(ParseError)

\* C13: each of the four values of a returned mapping is a string, whatever
\* the values of the decoded object are (null, numbers, lists, nested objects).
C13_ValuesAreStrings ==
    (Finished /\ ~outcome.raised) =>
        \A k \in KEYS : outcome.value.m[k].t = "str"

\* C14: a non-empty DEFAULT_LLM_MODEL is the resolved model whatever keys
\* exist; otherwise the Anthropic key selects claude-sonnet-4-5-20250929,
\* otherwise the OpenAI key selects gpt-4o, otherwise resolution fails and no
\* model is resolved; the model is a function of these three settings alone.
C14_ResolutionPrecedence ==
    pc \notin {"prompt", "kwargs"} =>
        IF settings.DEFAULT_LLM_MODEL # ""
        THEN kwargs.model = settings.DEFAULT_LLM_MODEL
        ELSE IF settings.ANTHROPIC_API_KEY # ""
        THEN kwargs.model = "claude-sonnet-4-5-20250929"
        ELSE IF settings.OPENAI_API_KEY # ""
        THEN kwargs.model = "gpt-4o"
        ELSE /\ kwargs = NoKwargs
             /\ calls = 0
             /\ exc = ConfigurationError

\* both keys present and no default: the Anthropic model is the one resolved
C14_Witness ==
    /\ pc = "completion"
    /\ settings.DEFAULT_LLM_MODEL = ""
    /\ settings.ANTHROPIC_API_KEY # ""
    /\ settings.OPENAI_API_KEY # ""
    /\ kwargs.model = "claude-sonnet-4-5-20250929"

\* C17: one invocation calls the completion endpoint at most once whatever
\* the outcome, and the call carries exactly two messages: the system turn
\* holding SOAP_SYSTEM_PROMPT, then the user turn holding the user prompt.
C17_SingleCallTwoMessages ==
    /\ calls <= 1
    /\ Len(sent) = calls
    /\ \A i \in 1..Len(sent) :
          /\ Len(sent[i]) = 2
          /\ sent[i][1].role = "system"
          /\ sent[i][1].content = SOAP_SYSTEM_PROMPT
          /\ sent[i][2].role = "user"
          /\ sent[i][2].content = UserPrompt(context)

\* a parse failure after the one call: nothing was sent a second time
C17_Witness ==
    /\ Finished
    /\ outcome = Raised(ParseError)
    /\ calls = 1
    /\ Len(sent) = 1
    /\ Len(sent[1]) = 2

(***************************************************************************)
(* Properties of build_soap_context (specification SpecCtx).               *)
(***************************************************************************)
CtxReturned == ctxpc = "done" /\ ~ctxout.raised
VitalFields == {"bp_systolic", "bp_diastolic", "temperature", "heart_rate",
                "respiratory_rate", "oxygen_saturation", "weight", "height"}
NoVitals(c) == \A f \in VitalFields : c[f] = PyNone

\* the fields a vital of the context is rendered from
FieldsOf(k) ==
    IF k = "blood_pressure" THEN {"bp_systolic", "bp_diastolic"} ELSE {k}

C6_BloodPressureRendered ==
    CtxReturned =>
        IF consultation.bp_systolic # PyNone /\ consultation.bp_diastolic # PyNone
        THEN /\ "blood_pressure" \in DOMAIN ctxout.value.vital_signs
             /\ ctxout.value.vital_signs["blood_pressure"] =
                   PyStr(ToString(consultation.bp_systolic.n) \o "/"
                         \o ToString(consultation.bp_diastolic.n) \o " mmHg")
        ELSE "blood_pressure" \notin DOMAIN ctxout.value.vital_signs

\* C6, the recorded pair alone: a reading of 0 is a stored value, and the
\* rendering of a pair holding one fails (line 74 tests truthiness).
C6_RecordedPairRendered ==
    (CtxReturned /\ consultation.bp_systolic # PyNone
                 /\ consultation.bp_diastolic # PyNone)
        => ctxout.value.vital_signs["blood_pressure"] =
               PyStr(ToString(consultation.bp_systolic.n) \o "/"
                     \o ToString(consultation.bp_diastolic.n) \o " mmHg")

\* C7: build_soap_context never raises; patient_history has one entry per
\* prior visit, in the given order, with the visit's date, chief complaint,
\* diagnosis and assessment.
C7_HistoryNeverFails ==
    ctxpc = "done" =>
        /\ ~ctxout.raised
        /\ Len(ctxout.value.patient_history) = Len(history)
        /\ \A i \in 1..Len(history) :
              ctxout.value.patient_history[i] =
                  [ date |-> history[i].consultation_date,
                    chief_complaint |-> history[i].chief_complaint,
                    diagnosis |-> history[i].primary_diagnosis,
                    assessment |-> history[i].soap_assessment ]

(***************************************************************************)
(* Properties of the user prompt (specification SpecPrompt).               *)
(***************************************************************************)
PromptBuilt == pc = "kwargs" /\ messages # <<>>
UserLines == messages[2].content

\* the index of the first line equal to x
IndexOf(lines, x) ==
    CHOOSE i \in 1..Len(lines) : lines[i] = x /\ \A j \in 1..(i - 1) : lines[j] # x

\* the lines under a header, up to the next empty line
Section(lines, header) ==
    LET h == IndexOf(lines, header)
        e == CHOOSE j \in (h + 1)..Len(lines) :
                 lines[j] = "" /\ \A m \in (h + 1)..(j - 1) : lines[m] # ""
    IN  SubSeq(lines, h + 1, e - 1)

ExpectedLabel ==
    [ blood_pressure |-> "Blood Pressure", temperature |-> "Temperature",
      heart_rate |-> "Heart Rate", respiratory_rate |-> "Respiratory Rate",
      oxygen_saturation |-> "Oxygen Saturation", weight |-> "Weight",
      height |-> "Height" ]

PresentVitals(ctx) == {k \in VITALS : ctx.vital_signs[k] # PyNone}

\* the names of a list, separated by a comma and a space
Names(list) ==
    IF Len(list.items) = 1 THEN list.items[1].s
    ELSE list.items[1].s \o ", " \o list.items[2].s

\* C19: the user message holds, in labeled sections, the chief complaint; one
\* line for each vital that is present and none for an absent one; every
\* allergy and every medical condition, or None known for an empty list; and
\* one line per prior visit with its date, its complaint and, when that is
\* not empty, its diagnosis.
C19_PromptReflectsContext ==
    PromptBuilt =>
        LET u == UserLines
            vit == Section(u, "VITAL SIGNS:")
            med == Section(u, "PATIENT MEDICAL INFORMATION:")
            his == Section(u, "PATIENT HISTORY (recent consultations):")
            ph == context.patient_history
            info == IF "patient_medical_info" \in DOMAIN context
                    THEN context.patient_medical_info
                    ELSE [allergies |-> PyList(<<>>), medical_conditions |-> PyList(<<>>)]
        IN  /\ u[IndexOf(u, "CHIEF COMPLAINT:") + 1] = context.chief_complaint.s
            /\ \A k \in PresentVitals(context) :
                  Cardinality({i \in 1..Len(vit) :
                      vit[i] = "- " \o ExpectedLabel[k] \o ": "
                                    \o context.vital_signs[k].s}) = 1
            /\ IF PresentVitals(context) = {}
               THEN vit = <<"No vital signs recorded.">>
               ELSE Len(vit) = Cardinality(PresentVitals(context))
            /\ \E i \in 1..Len(med) :
                  med[i] = IF info.allergies.items = <<>>
                           THEN "- Allergies: None known"
                           ELSE "- Allergies: " \o Names(info.allergies)
            /\ \E i \in 1..Len(med) :
                  med[i] = IF info.medical_conditions.items = <<>>
                           THEN "- Medical Conditions: None known"
                           ELSE "- Medical Conditions: " \o Names(info.medical_conditions)
            /\ IF ph = <<>>
               THEN his = <<"No previous consultations on record.">>
               ELSE /\ Len(his) = Len(ph)
                    /\ \A i \in 1..Len(ph) :
                          his[i] = "- " \o ph[i].date.s \o ": " \o ph[i].chief_complaint.s
                                     \o (IF ph[i].diagnosis.s # ""
                                         THEN " (Dx: " \o ph[i].diagnosis.s \o ")"
                                         ELSE "")

\* two prior visits, the first with a diagnosis and the second without, a
\* recorded heart rate and no recorded temperature
C19_Witness ==
    /\ PromptBuilt
    /\ Len(context.patient_history) = 2
    /\ context.patient_history[1].diagnosis = PyStr("Upper Respiratory Infection")
    /\ context.patient_history[2].diagnosis = PyStr("")
    /\ context.vital_signs["heart_rate"] # PyNone
    /\ context.vital_signs["temperature"] = PyNone
    /\ \E i \in 1..Len(UserLines) :
          UserLines[i] = "- 2026-01-10: sore throat (Dx: Upper Respiratory Infection)"
    /\ \E i \in 1..Len(UserLines) : UserLines[i] = "- 2025-12-01: headache"
    /\ \E i \in 1..Len(UserLines) : UserLines[i] = "- Heart Rate: 78 bpm"

(***************************************************************************)
(* Properties of GenerateSOAPView.post (specification SpecView).           *)
(***************************************************************************)
ViewDone == viewpc = "done"
Body == response.body

\* the request failed for want of configuration, or inside the call of
\* generate_soap_with_ai (configuration, provider or parse failure)
GenerationFailed == ViewDone /\ (response.status = 503 \/ soap_result.raised)

\* str(e) of the exceptions the completion call raises
RawProviderTexts == {ExcStr(e) : e \in ProviderExceptions}

\* C15: for a user with a clinic the view answers 503 AI service is not
\* configured exactly when _get_llm_kwargs has nothing to resolve, that is
\* when DEFAULT_LLM_MODEL and both API keys are empty; with DEFAULT_LLM_MODEL
\* set and no API key it goes on to the model invocation.
C15_DefaultModelCountsAsConfigured ==
    (ViewDone /\ request.clinic # NoClinic) =>
        (response.status = 503 <=> _get_llm_kwargs(settings).raised)

HistoryQueried ==
    \/ viewpc \in {"context", "generate"}
    \/ ViewDone /\ response.status \in {200, 500}

\* the other consultations of the patient of the request
OtherVisits == {c \in db : c.patient_id = found.patient_id /\ c.pk # request.pk}
Handed == {view_history[i] : i \in 1..Len(view_history)}
Day(c) == c.consultation_date.day

\* C18: the history handed to build_soap_context holds at most 5
\* consultations, all of the patient of the request, none of them the
\* consultation of the request, newest first by consultation date; it
\* holds all the patient's other consultations when they are at most 5 and
\* otherwise 5 of them than which no other is more recent.
C18_HistoryWindow ==
    HistoryQueried =>
        /\ Len(view_history) <= 5
        /\ Handed \subseteq OtherVisits
        /\ Cardinality(Handed) = Len(view_history)
        /\ \A i \in 1..Len(view_history) : \A j \in i..Len(view_history) :
              Day(view_history[i]) >= Day(view_history[j])
        /\ IF Cardinality(OtherVisits) <= 5
           THEN Handed = OtherVisits
           ELSE /\ Len(view_history) = 5
                /\ \A c \in OtherVisits \ Handed : \A h \in Handed : Day(c) <= Day(h)

\* more than 5 other visits, and one left out falls on the day of the last
\* one handed over
C18_Witness ==
    /\ HistoryQueried
    /\ Cardinality(OtherVisits) > 5
    /\ Len(view_history) = 5
    /\ \E c \in OtherVisits \ Handed : Day(c) = Day(view_history[5])
    /\ \E i \in 1..4 : view_history[i].pk < view_history[i + 1].pk

(***************************************************************************)
(* Properties of the invoice API (specification SpecInvoice).              *)
(***************************************************************************)
LifecycleOps == {"pay", "finalize", "cancel"}

\* the moves of the status: operation, status before, status after
StatusMoves ==
    { <<"finalize", "draft", "pending">>,
      <<"pay", "draft", "paid">>,
      <<"pay", "pending", "paid">>,
      <<"cancel", "draft", "cancelled">>,
      <<"cancel", "pending", "cancelled">> }

ValidationMessages ==
    { "Only draft or pending invoices can be paid.",
      "Only draft invoices can be finalized.",
      "Invoice must have at least one item.",
      "Paid invoices cannot be cancelled.",
      "Invoice is already cancelled." }

\* the request the answer belongs to named this invoice in its own clinic
Addressed(resp, inv) == resp.pk = inv.pk /\ resp.clinic = inv.clinic

\* C20: a step of pay, finalize or cancel moves the status of an invoice only
\* along draft->pending (finalize), draft|pending->paid (pay) and
\* draft|pending->cancelled (cancel); asked of a paid or cancelled invoice it
\* answers with a validation error and leaves the invoice as it was; and a
\* pay that succeeds leaves the invoice paid, amount_paid equal to the total,
\* payment_method "cash" and payment_date set.
C20_StatusMachine ==
    [][ invresp'.op \in LifecycleOps =>
          /\ Cardinality(invoices') = Cardinality(invoices)
          /\ \A old \in invoices : \E new \in invoices' :
                /\ new.pk = old.pk
                /\ new.status # old.status
                      => <<invresp'.op, old.status, new.status>> \in StatusMoves
                /\ old.status \in {"paid", "cancelled"} => new = old
                /\ old.status \in {"paid", "cancelled"} /\ Addressed(invresp', old)
                      => /\ invresp'.status = 400
                         /\ invresp'.body \in ValidationMessages
                /\ invresp'.status # 200 => new = old
                /\ invresp'.op = "pay" /\ invresp'.status = 200 /\ Addressed(invresp', old)
                      => /\ old.status \in {"draft", "pending"}
                         /\ new.status = "paid"
                         /\ new.total = old.total
                         /\ new.amount_paid = new.total
                         /\ new.payment_method = "cash"
                         /\ new.payment_date.t = "datetime"
      ]_vars

\* an invoice of a positive total was paid, and the cancel asked of it next
\* was answered with the validation error
C20_Witness ==
    \E inv \in invoices :
        /\ inv.status = "paid"
        /\ inv.total > 0
        /\ inv.amount_paid = inv.total
        /\ inv.payment_date.t = "datetime"
        /\ invresp.op = "cancel"
        /\ Addressed(invresp, inv)
        /\ invresp.status = 400
        /\ invresp.body = "Paid invoices cannot be cancelled."

\* C21: a finalize asked of a draft invoice without items is answered with
\* the validation error and leaves the invoice a draft; a finalize moves an
\* invoice to pending only from draft and only with at least one item.
C21_FinalizeNeedsItems ==
    [][ invresp'.op = "finalize" =>
          \A old \in invoices : \E new \in invoices' :
              /\ new.pk = old.pk
              /\ Addressed(invresp', old) /\ old.status = "draft" /\ Len(old.items) = 0
                    => /\ invresp'.status = 400
                       /\ invresp'.body = "Invoice must have at least one item."
                       /\ new = old
              /\ new.status = "pending" /\ old.status # "pending"
                    => /\ old.status = "draft"
                       /\ Len(old.items) >= 1
                       /\ invresp'.status = 200
      ]_vars

\* a draft without items was asked to finalize and stayed a draft
C21_Witness ==
    \E inv \in invoices :
        /\ inv.status = "draft"
        /\ Len(inv.items) = 0
        /\ invresp.op = "finalize"
        /\ Addressed(invresp, inv)
        /\ invresp.status = 400
        /\ invresp.body = "Invoice must have at least one item."

\* C22: no step of the API removes an invoice that is pending, paid or
\* cancelled, nor changes its items, discount, notes or consultation.
C22_NonDraftKept ==
    [][ \A old \in invoices :
            old.status \in {"pending", "paid", "cancelled"}
                => \E new \in invoices' :
                      /\ new.pk = old.pk
                      /\ new.items = old.items
                      /\ new.discount_type = old.discount_type
                      /\ new.discount_value = old.discount_value
                      /\ new.notes = old.notes
                      /\ new.consultation = old.consultation
      ]_vars

\* C22, what holds of the invoice views alone: the steps other than the
\* deletion of a consultation keep every invoice that is not a draft
C22_InvoiceViewsKeepNonDraft ==
    [][ invresp'.op # "delete consultation" =>
          \A old \in invoices :
              old.status \in {"pending", "paid", "cancelled"}
                  => \E new \in invoices' :
                        /\ new.pk = old.pk
                        /\ new.items = old.items
                        /\ new.discount_type = old.discount_type
                        /\ new.discount_value = old.discount_value
                        /\ new.notes = old.notes
                        /\ new.consultation = old.consultation
      ]_vars

\* C28: an invoice with status paid has amount_paid equal to its total and a
\* payment date.
C28_PaidIsSettled ==
    \A inv \in invoices :
        inv.status = "paid"
            => /\ inv.amount_paid = inv.total
               /\ inv.payment_date.t = "datetime"

(***************************************************************************)
(* Properties of the id generator (specification SpecIds).                 *)
(***************************************************************************)
\* the sequence numbers of a clinic's ids of this year
SeqNumbers(rows, clinic) ==
    {ToInt(row.patient_id.digits) : row \in WithPrefix(rows, clinic, "PT", ThisYear)}

\* the successor of the greatest of them, 1 when there is none
NextSeq(rows, clinic) ==
    LET seqs == SeqNumbers(rows, clinic)
    IN  IF seqs = {} THEN 1 ELSE (CHOOSE n \in seqs : \A m \in seqs : m <= n) + 1

\* C23: the id a request generates is the prefix of this year followed by
\* exactly four digits, which are the successor of the greatest sequence
\* number among the clinic's ids of this year, 0001 when there is none,
\* whatever the rows of other clinics and years.
C23_SequentialFourDigits ==
    [][ \A r \in IdRequests :
            idreqs[r].at = "start" /\ idreqs'[r].at = "generated"
                => /\ idreqs'[r].patient_id.prefix = "PT"
                   /\ idreqs'[r].patient_id.year = ThisYear
                   /\ Len(idreqs'[r].patient_id.digits) = IdWidth
                   /\ ToInt(idreqs'[r].patient_id.digits) = NextSeq(patient_rows, idreqs[r].clinic)
      ]_vars

\* C23, what holds: over a table whose ids of the clinic and year are all
\* below 9999 the generated id is the four-digit successor
C23_SequentialBelowOverflow ==
    [][ \A r \in IdRequests :
            /\ idreqs[r].at = "start" /\ idreqs'[r].at = "generated"
            /\ \A n \in SeqNumbers(patient_rows, idreqs[r].clinic) : n < 9999
            => /\ idreqs'[r].patient_id.prefix = "PT"
               /\ idreqs'[r].patient_id.year = ThisYear
               /\ Len(idreqs'[r].patient_id.digits) = IdWidth
               /\ ToInt(idreqs'[r].patient_id.digits) = NextSeq(patient_rows, idreqs[r].clinic)
      ]_vars

\* C24: two requests of one clinic that have both generated their id and
\* not yet saved hold different ids.
C24_InterleavedCreatesDistinct ==
    \A r1 \in IdRequests, r2 \in IdRequests :
        /\ r1 # r2
        /\ idreqs[r1].clinic = idreqs[r2].clinic
        /\ idreqs[r1].at = "generated"
        /\ idreqs[r2].at = "generated"
        => idreqs[r1].patient_id # idreqs[r2].patient_id

(***************************************************************************)
(* Properties of the staff API (specification SpecStaff).                  *)
(***************************************************************************)
\* the account that made the request a step answers
RequesterOf(resp, accts) == CHOOSE a \in accts : a.pk = resp.requester

\* C25: no step of the staff endpoints modifies or deactivates an owner's
\* account; a PUT or DELETE by an owner that targets the owner of the clinic
\* is answered 400; and a step asked by an account that is not an owner
\* changes no account.
C25_OwnerUntouched ==
    [][ /\ \A a \in users : a.is_owner => a \in users'
        /\ \A a \in users' : a.is_owner => a \in users
        /\ ~RequesterOf(staffresp', users).is_owner
              => users' = users /\ staffresp'.status = 403
        /\ /\ staffresp'.op \in {"update", "deactivate"}
           /\ RequesterOf(staffresp', users).is_owner
           /\ \E a \in users : /\ a.pk = staffresp'.pk
                               /\ a.clinic = RequesterOf(staffresp', users).clinic
                               /\ a.is_owner
           => users' = users /\ staffresp'.status = 400
      ]_vars

\* an owner deactivated a staff member of the clinic, and the deactivation
\* asked of the owner's own account next was answered 400
C25_Witness ==
    /\ staffresp.op = "deactivate"
    /\ staffresp.status = 400
    /\ staffresp.body = "Cannot deactivate the clinic owner."
    /\ \E a \in users : a.pk = staffresp.pk /\ a.is_owner /\ a.is_active
    /\ \E a \in users : ~a.is_owner /\ ~a.is_active

OwnRows == {c \in db : c.clinic = request.clinic}

\* rows another clinic may hold besides: a consultation with the primary
\* key of the request when no row of the user's clinic has it, and a later
\* one, of a patient of that clinic
ForeignRows ==
    {StoredConsultation(p, o, "P3", MaxDay, "cough") :
        p \in {request.pk, Cardinality(db) + MaxPrior} \ {c.pk : c \in OwnRows},
        o \in Clinics \ {request.clinic}}

\* tables that differ from db only in the rows of other clinics: none of
\* them, and those of ForeignRows
ForeignVariants == {OwnRows, OwnRows \cup ForeignRows}

\* the consultation was looked up
LookedUp ==
    /\ viewpc \notin {"start", "get"}
    /\ EarlyResponse(request.clinic, settings) = NoResponse

\* C27: the consultation found is a row of the requesting user's clinic
\* with the primary key of the request; when the clinic has no such row
\* the answer is 404, with no context built and no model call; the history
\* handed over holds rows of the user's clinic only; the context is
\* build_soap_context of these and is what a 200 echoes as context_used;
\* and on a table that differs from db only in other clinics' rows the
\* lookup gives the same result and the history query gives the history
\* handed over.
C27_TenantIsolation ==
    request.clinic \in Clinics =>
        /\ found # IdleConsultation => found \in OwnRows /\ found.pk = request.pk
        /\ LookedUp /\ (\A c \in OwnRows : c.pk # request.pk)
              => /\ response = NotFoundResponse
                 /\ found = IdleConsultation
                 /\ view_context = NoContext
                 /\ soap_result = Pending
        /\ LookedUp
              => \A t \in ForeignVariants :
                    GetObjectOr404(t, request.pk, request.clinic)
                        = GetObjectOr404(db, request.pk, request.clinic)
        /\ HistoryQueried
              => /\ Handed \subseteq OwnRows
                 /\ \A t \in ForeignVariants :
                       view_history
                           \in PatientHistoryQuery(t, found, request.clinic, request.pk)
        /\ view_context # NoContext
              => view_context = build_soap_context(found, view_history).value
        /\ response.status = 200 => response.body.context_used = view_context

\* a user of one clinic asked for a consultation of the other clinic and
\* was answered 404
C27_Witness ==
    /\ request.clinic \in Clinics
    /\ \E c \in db : c.pk = request.pk /\ c.clinic \in Clinics \ {request.clinic}
    /\ ViewDone
    /\ response = NotFoundResponse
    /\ soap_result = Pending

\* the history query gave a prior visit while the table holds a row of the
\* other clinic
C27_HistoryOfOwnClinic ==
    /\ request.clinic \in Clinics
    /\ db \ OwnRows # {}
    /\ viewpc = "context"
    /\ Len(view_history) >= 1

====
